---------------------------- MODULE Spec2Model ----------------------------
(***************************************************************************)
(* A model of the job and progress orchestration of the file-compressor   *)
(* backend: the compression routes (src/routes/compress.js), the batch    *)
(* loop and the transcoder wrappers (src/services/compressionService.js), *)
(* the progress channel (websocketUtils, lines 141-284 of src/server.js)  *)
(* and the upload routes (src/routes/upload.js).                          *)
(*                                                                         *)
(* The codec libraries (sharp, ffmpeg, archiver), the file system and     *)
(* uuid are the environment: each await on them is a step whose outcome   *)
(* (returns / throws, sizes, ffmpeg progress ticks) is chosen freely.     *)
(* A request handler is cut into steps at its awaits on the environment:  *)
(* one step per validateFileExists, one for ensureDir, one per codec run  *)
(* and one for the two getFileSize calls that follow it.  The batch loop  *)
(* is cut once per file, but it goes from one file to the next within one *)
(* turn of the event loop, so no other handler runs in between (MidTurn). *)
(* The entries of the request's file list are read when the code reaches  *)
(* them.                                                                   *)
(*                                                                         *)
(* An error is a record of its message, name and code; what a failed      *)
(* request is answered is computed by the error middleware                *)
(* (src/middleware/errorHandler.js) from that record.                     *)
(*                                                                         *)
(* A filename is modelled by what path.extname returns for it.            *)
(*                                                                         *)
(* The join-job and leave-job handlers write a console line each; log     *)
(* keeps the first log.keep of them, which is none except in SpecSockets. *)
(***************************************************************************)
EXTENDS Integers, Sequences, FiniteSets, TLC

VARIABLES
    run,                \* per request slot: the handler's locals and position
    events,             \* per request slot: the events it has published, in order
    delivery,           \* the most recent fan-out: room, events, receiving sockets
    nextId,             \* number of job ids generateJobId has handed out
    connected,          \* sockets whose connection is open
    activeConnections,  \* keys of the activeConnections map
    rooms,              \* per socket: the job rooms it has joined
    upload,             \* the POST /api/upload/progress handler
    uploads,            \* the answers of POST /api/upload/single and
                        \* /api/upload/multiple, in order
    left,               \* per socket: the rooms it left, by leave-job or by
                        \* disconnecting, while their job was running
    log,                \* the console lines of the join-job and leave-job
                        \* handlers, in order, the first log.keep of them
    calc,               \* one call of calculateCompressionRatio: arguments, result
    util                \* one call of an emit function or of the file type
                        \* functions: arguments, result

vars == <<run, events, delivery, nextId, connected, activeConnections, rooms, upload,
          uploads, left, log, calc, util>>

---------------------------------------------------------------------------
(* Bounds of the model *)

MaxFiles == 2           \* files in one batch request
MaxTicks == 1           \* ffmpeg 'progress' callbacks during one invocation
MaxRuns == 2            \* compression requests in flight in SpecService
MaxObservers == 2       \* sockets in SpecChannel
MaxUploadFiles == 1     \* files in one upload request
MaxUploads == 1         \* requests to /upload/single and /upload/multiple
MaxSize == 202          \* bytes of a file handed to calculateCompressionRatio
MaxMessages == 3        \* join-job and leave-job messages in SpecSockets

Runs == 1..MaxRuns
Observers == 1..MaxObservers

(* Program constants *)

ArchiveReserve == 90    \* Math.round((i / total) * 90)
ArchivingPercent == 95  \* 'Creating archive...'
FullPercent == 100

\* let jobId;  (undefined until generateJobId() has run)
NoJob == -1
\* '' passed as job id
EmptyJobId == -2
\* a job id chosen by the client in POST /job/:jobId that no generateJobId() call returned
ClientJobId == 0

\* !jobId: the job ids the emit functions take as missing
MissingJobIds == {NoJob, EmptyJobId}

\* file.filename of an entry that carries no filename string
NoFilename == "undefined"

---------------------------------------------------------------------------
(* src/utils/fileUtils.js *)

SUPPORTED_TYPES ==
    [images    |-> {".jpg", ".jpeg", ".png", ".webp", ".tiff", ".tif", ".bmp"},
     videos    |-> {".mp4", ".avi", ".mov", ".wmv", ".flv", ".webm", ".mkv", ".m4v"},
     audio     |-> {".mp3", ".wav", ".flac", ".aac", ".ogg", ".m4a", ".wma"},
     documents |-> {".pdf"}]

\* Object.entries(SUPPORTED_TYPES) iterates in insertion order
CategoryOrder == <<"images", "videos", "audio", "documents">>

\* the extensions with a capital letter that the model draws, each with
\* what String.prototype.toLowerCase makes of it
CasePairs ==
    {<<".JPG", ".jpg">>, <<".JPEG", ".jpeg">>, <<".PNG", ".png">>, <<".WEBP", ".webp">>,
     <<".TIFF", ".tiff">>, <<".TIF", ".tif">>, <<".BMP", ".bmp">>, <<".MP4", ".mp4">>,
     <<".AVI", ".avi">>, <<".MOV", ".mov">>, <<".WMV", ".wmv">>, <<".FLV", ".flv">>,
     <<".WEBM", ".webm">>, <<".MKV", ".mkv">>, <<".M4V", ".m4v">>, <<".MP3", ".mp3">>,
     <<".WAV", ".wav">>, <<".FLAC", ".flac">>, <<".AAC", ".aac">>, <<".OGG", ".ogg">>,
     <<".M4A", ".m4a">>, <<".WMA", ".wma">>, <<".PDF", ".pdf">>, <<".TXT", ".txt">>,
     <<".Mp4", ".mp4">>}

\* String.prototype.toLowerCase on the extensions the model draws
ToLowerCase(ext) ==
    IF \E p \in CasePairs : p[1] = ext
    THEN (CHOOSE p \in CasePairs : p[1] = ext)[2]
    ELSE ext

getAllSupportedExtensions ==
    UNION {SUPPORTED_TYPES[c] : c \in DOMAIN SUPPORTED_TYPES}

\* isFileTypeSupported without toLowerCase.
isFileTypeSupported_CaseSensitive(filename) ==
    filename \in getAllSupportedExtensions

isFileTypeSupported(filename) ==
    ToLowerCase(filename) \in getAllSupportedExtensions

RECURSIVE FirstCategory(_, _)
FirstCategory(ext, k) ==
    IF k > Len(CategoryOrder) THEN "unknown"
    ELSE IF ext \in SUPPORTED_TYPES[CategoryOrder[k]] THEN CategoryOrder[k]
    ELSE FirstCategory(ext, k + 1)

getFileTypeCategory(filename) == FirstCategory(ToLowerCase(filename), 1)

\* The quotients num / den, in lowest terms, whose hundredfold is half-way
\* between two integers while the double (num / den) * 100 falls just below
\* it (23 / 40 * 100 is 57.49999999999999, -109 / 200 * 100 is
\* -54.50000000000001): all of them for num = original - compressed with
\* original in 1..1000 and compressed in 0..1000.  A half-way
\* quotient has the denominator 8, 40 or 200; one over 8 is exact in binary.
BelowHalfway ==
    {<<n, 40>> : n \in
        {-819, -809, -799, -789, -779, -769, -759, -749, -739, -729, -719, -709,
         -699, -689, -679, -669, -659, -649, -407, -397, -387, -377, -367, -357,
         -347, -337, -327, -201, -191, -181, -171, -161, -93, -83, -49, -11, 23}}
    \cup
    {<<n, 200>> : n \in
        {-511, -473, -469, -461, -423, -419, -411, -249, -247, -243, -111, -109,
         -7, 29, 57, 113}}

\* Math.round((num / den) * 100) in doubles, for den in 1..1000 and
\* den - 1000 <= num <= den: the nearest integer, a half-way value going
\* up, computed on the double product
RoundPercent(num, den) ==
    LET halfUp  == (200 * num + den) \div (2 * den)
        halfway == (200 * num) % (2 * den) = den
    IN  IF halfway /\ \E q \in BelowHalfway : num * q[2] = q[1] * den
        THEN halfUp - 1
        ELSE halfUp

\* The quotients i / total, in lowest terms, whose ninetyfold is half-way
\* between two integers while the double (i / total) * 90 falls just below it
\* ((7 / 20) * 90 is 31.499999999999996): all of them, since a half-way
\* quotient in 0..1 is an odd number of 180ths.
BelowHalfwayOfReserve ==
    {<<7, 20>>, <<23, 36>>, <<13, 180>>, <<49, 180>>, <<109, 180>>}

\* Math.round((i / total) * 90) in doubles, for 0 <= i <= total, total > 0
RoundReserve(i, total) ==
    LET halfUp  == (180 * i + total) \div (2 * total)
        halfway == (180 * i) % (2 * total) = total
    IN  IF halfway /\ \E q \in BelowHalfwayOfReserve : i * q[2] = q[1] * total
        THEN halfUp - 1
        ELSE halfUp

\* calculateCompressionRatio with Math.trunc in place of Math.round.
calculateCompressionRatio_Truncates(originalSize, compressedSize) ==
    IF originalSize = 0 THEN 0
    ELSE IF compressedSize > originalSize
         THEN -(((compressedSize - originalSize) * 100) \div originalSize)
         ELSE ((originalSize - compressedSize) * 100) \div originalSize

calculateCompressionRatio(originalSize, compressedSize) ==
    IF originalSize = 0 THEN 0
    ELSE RoundPercent(originalSize - compressedSize, originalSize)

---------------------------------------------------------------------------
(* websocketUtils (src/server.js, lines 141-284) *)

\* app.set('io', io): the routes always find the socket.io server
io == TRUE

\* { ...a, ...b }: the fields of b override those of a
Spread(a, b) ==
    CHOOSE merged \in {[k \in DOMAIN ab[1] \cup DOMAIN ab[2] |->
                          IF k \in DOMAIN ab[2] THEN ab[2][k] ELSE ab[1][k]] :
                       ab \in {<<a, b>>}} : TRUE

\* io.to(jobId): the sockets that are in room jobId now
InRoom(jobId) == {o \in connected : jobId \in rooms[o]}

\* emitProgress whose payload does not carry the id of the room.
emitProgress_WrongId(ioArg, jobId, progressData) ==
    IF ~ioArg \/ jobId \in MissingJobIds THEN <<>>
    ELSE <<[kind |-> "progress", room |-> jobId,
            payload |-> Spread([jobId |-> NoJob], progressData)]>>

\* Each emit function returns without publishing when io or jobId is missing;
\* otherwise it publishes one event to the room named jobId.
emitProgress(ioArg, jobId, progressData) ==
    IF ~ioArg \/ jobId \in MissingJobIds THEN <<>>
    ELSE <<[kind |-> "progress", room |-> jobId,
            payload |-> Spread([jobId |-> jobId], progressData)]>>

\* emitCompletion without the check of io and jobId.
emitCompletion_Unguarded(ioArg, jobId, completionData) ==
    <<[kind |-> "completed", room |-> jobId,
       payload |-> Spread([jobId |-> jobId, status |-> "completed"], completionData)]>>

emitCompletion(ioArg, jobId, completionData) ==
    IF ~ioArg \/ jobId \in MissingJobIds THEN <<>>
    ELSE <<[kind |-> "completed", room |-> jobId,
            payload |-> Spread([jobId |-> jobId, status |-> "completed"], completionData)]>>

emitError(ioArg, jobId, errorData) ==
    IF ~ioArg \/ jobId \in MissingJobIds THEN <<>>
    ELSE <<[kind |-> "error", room |-> jobId,
            payload |-> [jobId |-> jobId, status |-> "error", error |-> errorData]]>>

emitStatus(ioArg, jobId, status, message) ==
    IF ~ioArg \/ jobId \in MissingJobIds THEN <<>>
    ELSE <<[kind |-> "status", room |-> jobId,
            payload |-> [jobId |-> jobId, status |-> status, message |-> message]]>>

\* Publish that waits until a socket is in the room.
Publish_NeedsListener(r, evs) ==
    /\ IF evs = <<>> THEN TRUE ELSE InRoom(evs[1].room) # {}
    /\ events' = [events EXCEPT ![r] = @ \o evs]
    /\ delivery' = IF evs = <<>> THEN delivery
                   ELSE [room |-> evs[1].room, events |-> evs, to |-> InRoom(evs[1].room)]

\* Publish with io.emit in place of io.to(jobId).emit.
Publish_ToEveryone(r, evs) ==
    /\ events' = [events EXCEPT ![r] = @ \o evs]
    /\ delivery' = IF evs = <<>> THEN delivery
                   ELSE [room |-> evs[1].room, events |-> evs, to |-> connected]

\* The events a handler step published, in order: appended to the slot's
\* history and fanned out to the sockets in the room at that moment.
Publish(r, evs) ==
    /\ events' = [events EXCEPT ![r] = @ \o evs]
    /\ delivery' = IF evs = <<>> THEN delivery
                   ELSE [room |-> evs[1].room, events |-> evs, to |-> InRoom(evs[1].room)]


\* io.emit(...): every connected socket receives it, whatever rooms it joined
Broadcast(evs) ==
    delivery' = [room |-> NoJob, events |-> evs, to |-> connected]

---------------------------------------------------------------------------
(* Errors and src/middleware/errorHandler.js *)

\* new Error(message): the message is the sequence of the parts a template
\* literal joins with ': '; an Error made by the program carries no code
NewError(message) ==
    [message |-> message, name |-> "Error", code |-> "none", status |-> 0]

\* the TypeError the runtime throws on reading a property of null
TypeError(message) ==
    [message |-> message, name |-> "TypeError", code |-> "none", status |-> 0]

\* the Error a failing file system call rejects with: it carries err.code
SystemError(code) ==
    [message |-> <<code>>, name |-> "Error", code |-> code, status |-> 0]

\* the MulterError the upload middleware passes on: a code and its text
MulterError(code, message) ==
    [message |-> <<message>>, name |-> "MulterError", code |-> code, status |-> 0]

\* what fs.ensureDir can reject with
FsErrors == {SystemError("EACCES"), SystemError("ENOENT"), SystemError("ENOSPC"),
             SystemError("ENOTDIR")}

FfmpegExit == "ffmpeg exited with code 1: Conversion failed!"
UnsupportedImage == "Input file contains unsupported image format"
\* the Error of fileFilter (src/routes/upload.js, line 34)
InvalidFileType == "Invalid file type: .exe. Supported types: images, videos, audio, PDFs"

\* the message texts of the model that hold a text errorHandler looks for
Substrings ==
    {<<FfmpegExit, "ffmpeg">>, <<UnsupportedImage, UnsupportedImage>>,
     <<InvalidFileType, "Invalid file type">>}

\* message.includes(needle)
Includes(message, needle) ==
    \E k \in DOMAIN message : <<message[k], needle>> \in Substrings

\* err.message of an error that has none (undefined); the empty string is
\* the one empty part <<"">>
NoMessage == <<>>

\* errorHandler: the status and the message of the answer to next(err); an
\* error without a status has err.status 0.  The ifs are run in the order of
\* the source, a later one overriding an earlier.
errorHandler(err) ==
    LET e0 == [message |-> IF err.message \in {NoMessage, <<"">>}
                           THEN <<"Internal Server Error">>
                           ELSE err.message,
               status  |-> IF err.status = 0 THEN 500 ELSE err.status]
        e1 == IF err.code = "LIMIT_FILE_SIZE"
              THEN [message |-> <<"File too large. Maximum size allowed is 100MB per file.">>,
                    status |-> 413]
              ELSE e0
        e2 == IF err.code = "LIMIT_FILE_COUNT"
              THEN [message |-> <<"Too many files. Maximum 10 files allowed per upload.">>,
                    status |-> 413]
              ELSE e1
        e3 == IF err.code = "LIMIT_UNEXPECTED_FILE"
              THEN [message |-> <<"Unexpected file field or too many files.">>, status |-> 400]
              ELSE e2
        e4 == IF Includes(err.message, "Invalid file type")
              THEN [message |-> err.message, status |-> 400]
              ELSE e3
        e5 == IF Includes(err.message, "ffmpeg")
              THEN [message |-> <<"Video compression failed. Please check the video format.">>,
                    status |-> 422]
              ELSE e4
        e6 == IF Includes(err.message, UnsupportedImage)
              THEN [message |-> <<"Unsupported image format. Please use JPEG, PNG, WebP, or TIFF.">>,
                    status |-> 422]
              ELSE e5
        e7 == IF err.code = "ENOENT"
              THEN [message |-> <<"File not found.">>, status |-> 404]
              ELSE e6
        e8 == IF err.code = "EACCES"
              THEN [message |-> <<"Permission denied.">>, status |-> 403]
              ELSE e7
        e9 == IF err.code = "ENOSPC"
              THEN [message |-> <<"No space left on device.">>, status |-> 507]
              ELSE e8
        e10 == IF Includes(err.message, "Too many requests")
               THEN [message |-> <<"Rate limit exceeded. Please try again later.">>,
                     status |-> 429]
               ELSE e9
    IN  IF err.name = "ValidationError"
        THEN [message |-> <<"Validation failed">> \o
                          (IF err.message = NoMessage THEN <<"undefined">>
                           ELSE err.message),
              status |-> 400]
        ELSE e10

---------------------------------------------------------------------------
(* src/services/compressionService.js: the transcoder wrappers *)

\* The options a wrapper is handed: null, an object that sets neither width
\* nor height, or one that sets a width or a height.
OptionShapes == {"null", "plain", "resize"}

\* Where the part of a wrapper that runs before its first await can throw:
\* at the destructuring of options, after the status event (the codec
\* library refuses the input or a setting), after the resize of compressImage
\* (the library refuses the output settings), or nowhere.
ThrowPoints == {"options", "setup", "format", "none"}

\* The throw points of the wrapper for fileType handed these options.
\* compressPDF does not read its options and calls nothing of a codec library
\* before fs.copy.
CanThrowAt(fileType, options) ==
    IF fileType = "documents" THEN {"none"}
    ELSE IF options = "null" THEN {"options"}
    ELSE IF fileType = "images" THEN {"setup", "format", "none"}
    ELSE {"setup", "none"}

\* What a wrapper publishes before its first await on the codec library, or
\* before it throws at thrownAt.
TranscoderStart(fileType, jobId, options, thrownAt) ==
    CASE fileType = "images" ->
            IF thrownAt = "options" THEN <<>>
            ELSE emitStatus(io, jobId, "processing", "Starting image compression...")
                 \o (IF thrownAt = "setup" THEN <<>>
                     ELSE (IF options = "resize"
                           THEN emitProgress(io, jobId,
                                    [progress |-> 30, message |-> "Resizing image..."])
                           ELSE <<>>)
                          \o (IF thrownAt = "format" THEN <<>>
                              ELSE emitProgress(io, jobId,
                                       [progress |-> 60, message |-> "Applying compression..."])))
      [] fileType = "videos" ->
            IF thrownAt = "options" THEN <<>>
            ELSE emitStatus(io, jobId, "processing", "Starting video compression...")
      [] fileType = "audio" ->
            IF thrownAt = "options" THEN <<>>
            ELSE emitStatus(io, jobId, "processing", "Starting audio compression...")
      [] fileType = "documents" ->
            emitStatus(io, jobId, "processing", "Processing PDF...")
            \o emitProgress(io, jobId, [progress |-> 50, message |-> "Copying PDF file..."])

\* The text of what is thrown at a throw point.
SyncCause(thrownAt) ==
    CASE thrownAt = "options" -> "Cannot read properties of null (reading 'quality')"
      [] thrownAt = "setup"   -> "Invalid size specified"
      [] thrownAt = "format"  -> "Expected integer between 1 and 100 for quality"

\* The prefix under which a wrapper rethrows what its own catch caught.
FailurePrefix(fileType) ==
    CASE fileType = "images"    -> "Image compression failed"
      [] fileType = "videos"    -> "Video compression failed"
      [] fileType = "audio"     -> "Audio compression failed"
      [] fileType = "documents" -> "PDF processing failed"

\* The error with which a wrapper rejects when it throws before its first
\* await: compressImage's catch wraps it in a new Error; the promise
\* executors of compressVideo and compressAudio reject with it as it is.
SyncError(fileType, thrownAt) ==
    IF fileType = "images"
    THEN NewError(<<FailurePrefix(fileType), SyncCause(thrownAt)>>)
    ELSE IF thrownAt = "options" THEN TypeError(<<SyncCause(thrownAt)>>)
    ELSE NewError(<<SyncCause(thrownAt)>>)

\* command.on('progress'): ffmpeg reports a percentage while it runs
FfmpegPercents == {40}

TranscoderTick(fileType, jobId, percent) ==
    emitProgress(io, jobId, [progress |-> percent, message |-> "Processing..."])

\* compressImage once sharp has written the output: 'Finalizing...', then the
\* awaits on getFileSize.  The other wrappers publish nothing at that point.
TranscoderFinalize(fileType, jobId) ==
    IF fileType = "images"
    THEN emitProgress(io, jobId, [progress |-> 90, message |-> "Finalizing..."])
    ELSE <<>>

\* What a wrapper publishes once getFileSize has reported both sizes.
TranscoderEnd(fileType, jobId) ==
    CASE fileType = "images" ->
            emitProgress(io, jobId, [progress |-> FullPercent, message |-> "Image compression completed!"])
      [] fileType = "videos" ->
            emitProgress(io, jobId, [progress |-> FullPercent, message |-> "Video compression completed!"])
      [] fileType = "audio" ->
            emitProgress(io, jobId, [progress |-> FullPercent, message |-> "Audio compression completed!"])
      [] fileType = "documents" ->
            emitProgress(io, jobId, [progress |-> FullPercent, message |-> "PDF processing completed!"])

\* The messages with which the codec library (sharp.toFile, the ffmpeg
\* 'error' event, fs.copy) can fail for a file of this category.
CodecCauses(fileType) ==
    CASE fileType = "images"    -> {"codec error", UnsupportedImage}
      [] fileType = "videos"    -> {"codec error", FfmpegExit}
      [] fileType = "audio"     -> {"codec error", FfmpegExit}
      [] fileType = "documents" -> {"codec error"}

\* The result object a wrapper returns; sizes = <<originalSize, compressedSize>>
\* as getFileSize reports them (0 when stat fails).
TranscoderResult(fileType, outputPath, sizes) ==
    [compressedPath   |-> outputPath,
     originalSize     |-> sizes[1],
     compressedSize   |-> sizes[2],
     compressionRatio |-> IF fileType = "documents" THEN 0
                          ELSE calculateCompressionRatio(sizes[1], sizes[2]),
     format           |-> fileType]

\* The Error a wrapper throws when the codec library fails while the wrapper
\* awaits it: a new Error under the wrapper's prefix.
TranscoderError(fileType, cause) == NewError(<<FailurePrefix(fileType), cause>>)

UnsupportedError(fileType) == <<"Unsupported file type", fileType>>

\* result.failed, read as JavaScript reads a field that may be absent
Failed(result) == "failed" \in DOMAIN result /\ result.failed

Succeeded(result) == ~Failed(result)

\* results.filter(r => !r.failed).length and results.filter(r => r.failed).length
CountSucceeded(results) == Cardinality({k \in DOMAIN results : Succeeded(results[k])})
CountFailed(results) == Cardinality({k \in DOMAIN results : Failed(results[k])})

\* FailureRecord that also carries an output path and sizes.
FailureRecord_WithOutput(filename, message) ==
    [originalFilename |-> filename, error |-> message, failed |-> TRUE,
     compressedPath |-> 0, originalSize |-> 0, compressedSize |-> 0]

\* catch (error) inside the loop: the failure record pushed for files[i]
FailureRecord(filename, message) ==
    [originalFilename |-> filename, error |-> message, failed |-> TRUE]

\* createArchive with an entry for every element of results, failed or not.
createArchive_AllResults(results) == DOMAIN results

\* createArchive: the entries added to the zip
createArchive(results) ==
    {results[k].compressedPath :
        k \in {n \in DOMAIN results :
                 ~Failed(results[n]) /\ "compressedPath" \in DOMAIN results[n]}}

ArchivePath == "compressed_files.zip"

\* BatchResult with successfulFiles counting every entry of the result list.
BatchResult_CountsAll(results, total, withArchive) ==
    [type            |-> "batch",
     files           |-> results,
     totalFiles      |-> total,
     successfulFiles |-> Len(results),
     failedFiles     |-> CountFailed(results)]

\* The object compressBatch returns, with or without an archive.
BatchResult(results, total, withArchive) ==
    LET base == [type            |-> "batch",
                 files           |-> results,
                 totalFiles      |-> total,
                 successfulFiles |-> CountSucceeded(results),
                 failedFiles     |-> CountFailed(results)]
    IN  IF withArchive THEN Spread(base, [archive |-> ArchivePath]) ELSE base

\* catch (error) around compressBatch: the error is rethrown under a new message
BatchError(message) == <<"Batch compression failed">> \o message

---------------------------------------------------------------------------
(* src/routes/compress.js *)

\* SumOf that stops after the first element.
SumOf_FirstOnly(seq, field) ==
    IF seq = <<>> THEN 0
    ELSE IF field \in DOMAIN Head(seq) THEN Head(seq)[field] ELSE 0

RECURSIVE SumOf(_, _)
SumOf(seq, field) ==
    IF seq = <<>> THEN 0
    ELSE (IF field \in DOMAIN Head(seq) THEN Head(seq)[field] ELSE 0)
         + SumOf(Tail(seq), field)

SelectSucceeded(results) == SelectSeq(results, Succeeded)

FileEntry(file) ==
    IF Failed(file)
    THEN [originalFilename |-> file.originalFilename, success |-> FALSE,
          error |-> file.error]
    ELSE [originalFilename |-> file.originalFilename, success |-> TRUE,
          compressedPath   |-> file.compressedPath,
          originalSize     |-> file.originalSize,
          compressedSize   |-> file.compressedSize,
          compressionRatio |-> file.compressionRatio]

\* The response of /batch and /job/:jobId, built from compressBatch's result.
BatchResponse(jobId, result) ==
    LET successfulFiles     == SelectSucceeded(result.files)
        totalOriginalSize   == SumOf(successfulFiles, "originalSize")
        totalCompressedSize == SumOf(successfulFiles, "compressedSize")
        totalSaved          == totalOriginalSize - totalCompressedSize
        base ==
          [success |-> TRUE,
           jobId   |-> jobId,
           type    |-> "batch",
           summary |-> [totalFiles          |-> result.totalFiles,
                        successfulFiles     |-> result.successfulFiles,
                        failedFiles         |-> result.failedFiles,
                        totalOriginalSize   |-> totalOriginalSize,
                        totalCompressedSize |-> totalCompressedSize,
                        totalSaved          |-> totalSaved,
                        overallRatio        |-> IF totalOriginalSize > 0
                                                THEN RoundPercent(totalSaved, totalOriginalSize)
                                                ELSE 0],
           files   |-> [k \in DOMAIN result.files |-> FileEntry(result.files[k])]]
    IN  IF "archive" \in DOMAIN result
        THEN Spread(base, [archivePath |-> result.archive])
        ELSE base

\* The response of /single.
SingleResponse(jobId, filename, fileType, result) ==
    [success        |-> TRUE,
     jobId          |-> jobId,
     originalFile   |-> [name |-> filename, size |-> result.originalSize],
     compressedFile |-> [path |-> result.compressedPath, size |-> result.compressedSize],
     compression    |-> [ratio      |-> result.compressionRatio,
                         savedBytes |-> result.originalSize - result.compressedSize],
     fileType       |-> fileType]

NoResponse == [success |-> FALSE]

IdleRun ==
    [pc            |-> "idle",
     route         |-> "none",
     jobId         |-> NoJob,
     total         |-> 0,
     createArchive |-> FALSE,
     options       |-> "plain",
     validated     |-> 0,
     notFound      |-> 0,
     i             |-> 0,
     filename      |-> NoFilename,
     ticks         |-> 0,
     results       |-> <<>>,
     outcomes      |-> <<>>,
     invoked       |-> 0,
     archive       |-> {},
     error         |-> <<>>,
     http          |-> 0,
     sentAfter     |-> 0,
     response      |-> NoResponse]

\* Job ids a client can name in POST /job/:jobId: one of its own making, or
\* one a response or a broadcast has shown it.
KnownIds ==
    {ClientJobId}
    \cup (IF upload.pc = "idle" THEN {} ELSE {upload.jobId})
    \cup {uploads[k].jobId : k \in {n \in DOMAIN uploads : uploads[n].http = 200}}
    \cup {run[q].jobId : q \in {p \in Runs : run[p].pc = "completed"}}

FrameChannel ==
    UNCHANGED <<connected, activeConnections, rooms, upload, uploads, left, log,
               calc, util>>

---------------------------------------------------------------------------
(* The inputs a specification draws.  names: the filenames of file entries; *)
(* sizes: what getFileSize reports for input and output; maxFiles: the      *)
(* longest files array; archive: the values of createArchive; ticks: the    *)
(* ffmpeg progress callbacks of one invocation.                             *)

\* A file halved, and two whose percentages are half-way between two
\* integers: 40 to 17 bytes saves 57.5%, 160 to 292 bytes grows by 82.5%, and
\* the two together (200 to 309 bytes) grow by 54.5%.
SizePairs == {<<100, 50>>, <<40, 17>>, <<160, 292>>}

\* What reading file.path of an entry of the files array does: an entry that
\* is an object gives its path, an entry that is null makes the read throw.
Entries == {"object", "null"}

BatchScope ==
    [routes      |-> {"single", "batch", "job"},
     names       |-> {".JPG", ".mp4", ".mp3", ".pdf", ".txt", NoFilename},
     sizes       |-> SizePairs,
     maxFiles    |-> MaxFiles,
     archive     |-> BOOLEAN,
     ticks       |-> MaxTicks,
     options     |-> OptionShapes,
     entries     |-> Entries,
     throwPoints |-> ThrowPoints,
     causes      |-> {"codec error", FfmpegExit, UnsupportedImage},
     fsErrors    |-> FsErrors]

\* One file of one kind per request: what the claims about several requests
\* and about the channel need of a request.
LeanScope ==
    [routes      |-> {"single", "batch", "job"},
     names       |-> {".pdf", ".txt"},
     sizes       |-> {<<100, 50>>},
     maxFiles    |-> 1,
     archive     |-> {FALSE},
     ticks       |-> 0,
     options     |-> {"plain"},
     entries     |-> Entries,
     throwPoints |-> {"none"},
     causes      |-> {"codec error"},
     fsErrors    |-> {SystemError("EACCES")}]

---------------------------------------------------------------------------
(* The request handlers of src/routes/compress.js, step by step *)

\* RouteCatchEvents with the emitError call left out.
RouteCatchEvents_Silent(route, jobId, message) == <<>>

\* catch (error) of a route: the error event (/single and /batch publish it
\* only once a job id exists), then next(error).
RouteCatchEvents(route, jobId, message) ==
    IF io /\ (route = "job" \/ jobId # NoJob)
    THEN emitError(io, jobId, message)
    ELSE <<>>

\* next(error): errorHandler answers with the status and the message it
\* makes of the error.
RouteCatchRun(r, err) ==
    [run EXCEPT ![r].pc = "failed", ![r].error = err.message,
                ![r].http = errorHandler(err).status,
                ![r].sentAfter = Len(events'[r]),
                ![r].response = [success |-> FALSE, error |-> errorHandler(err)]]

\* `before` are the events the step had published when the error was thrown.
RouteCatch(r, before, err) ==
    /\ Publish(r, before \o RouteCatchEvents(run[r].route, run[r].jobId, err.message))
    /\ run' = RouteCatchRun(r, err)

\* The request body fails validation: 400, before any job id is made.
SubmitInvalid(r, sc) ==
    /\ run[r].pc = "idle"
    /\ \E route \in sc.routes :
         run' = [run EXCEPT ![r].pc = "rejected", ![r].route = route,
                            ![r].jobId = IF route = "job" THEN ClientJobId ELSE NoJob,
                            ![r].http = 400,
                            ![r].response = [success |-> FALSE, error |-> <<"required">>]]
    /\ UNCHANGED <<events, delivery, nextId>>
    /\ FrameChannel

\* file.path of an entry that is null
NullEntryError == TypeError(<<"Cannot read properties of null (reading 'path')">>)

\* The handler up to its first await: the body passes the check of the file
\* path or of the files array, /single and /batch draw a job id, and the
\* path of the first file is handed to validateFileExists.  On the batch
\* routes reading file.path of a null entry throws into the route's catch.
Submit(r, sc) ==
    /\ run[r].pc = "idle"
    /\ \E route \in sc.routes :
       \E n \in 1..(IF route = "single" THEN 1 ELSE sc.maxFiles) :
       \E arch \in sc.archive, options \in sc.options, j \in KnownIds,
          name \in sc.names \ {NoFilename}, entry \in sc.entries :
         /\ route = "job" \/ j = ClientJobId
         /\ route = "single" \/ name = CHOOSE x \in sc.names \ {NoFilename} : TRUE
         /\ route # "single" \/ (arch = FALSE /\ entry = "object")
         /\ LET jobId == IF route = "job" THEN j ELSE nextId + 1
                read  == [run EXCEPT ![r].route = route,
                                     ![r].jobId = jobId,
                                     ![r].total = n,
                                     ![r].createArchive = arch,
                                     ![r].options = options,
                                     ![r].filename = IF route = "single" THEN name
                                                     ELSE NoFilename]
            IN  IF entry = "null"
                THEN /\ Publish(r, RouteCatchEvents(route, jobId, NullEntryError.message))
                     /\ run' = [read EXCEPT
                                  ![r].pc = "failed",
                                  ![r].error = NullEntryError.message,
                                  ![r].http = errorHandler(NullEntryError).status,
                                  ![r].sentAfter = Len(events'[r]),
                                  ![r].response = [success |-> FALSE,
                                                   error |-> errorHandler(NullEntryError)]]
                ELSE /\ run' = [read EXCEPT ![r].pc = "validating"]
                     /\ UNCHANGED <<events, delivery>>
         /\ nextId' = IF route = "job" THEN nextId ELSE nextId + 1
    /\ FrameChannel

\* SubmitNotFound that reports the missing file on the job's room as well.
SubmitNotFound_EmitsError(r, sc) ==
    /\ run[r].pc = "validating"
    /\ run' = [run EXCEPT ![r].pc = "rejected",
                          ![r].notFound = run[r].validated + 1,
                          ![r].http = 404,
                          ![r].response = [success |-> FALSE, error |-> <<"File not found">>]]
    /\ Publish(r, emitError(io, run[r].jobId, <<"File not found">>))
    /\ UNCHANGED nextId
    /\ FrameChannel

\* SubmitNotFound with the 404 return left out: the request is accepted.
SubmitNotFound_Accepts(r, sc) ==
    /\ run[r].pc = "validating"
    /\ run' = [run EXCEPT ![r].pc = "ensureDir",
                          ![r].notFound = run[r].validated + 1,
                          ![r].validated = run[r].total]
    /\ UNCHANGED <<events, delivery, nextId>>
    /\ FrameChannel

\* validateFileExists resolves false for the file it was handed: 404.
SubmitNotFound(r, sc) ==
    /\ run[r].pc = "validating"
    /\ run' = [run EXCEPT ![r].pc = "rejected",
                          ![r].notFound = run[r].validated + 1,
                          ![r].http = 404,
                          ![r].response = [success |-> FALSE, error |-> <<"File not found">>]]
    /\ UNCHANGED <<events, delivery, nextId>>
    /\ FrameChannel

\* validateFileExists resolves true: the path of the next entry is handed to
\* it (reading it throws when the entry is null), or, after the last file,
\* the handler awaits fs.ensureDir(tempDir).
SubmitAccepted(r, sc) ==
    /\ run[r].pc = "validating"
    /\ IF run[r].validated + 1 = run[r].total
       THEN /\ run' = [run EXCEPT ![r].pc = "ensureDir", ![r].validated = @ + 1]
            /\ UNCHANGED <<events, delivery>>
       ELSE \E entry \in sc.entries :
              IF entry = "null"
              THEN /\ Publish(r, RouteCatchEvents(run[r].route, run[r].jobId,
                                                  NullEntryError.message))
                   /\ run' = [RouteCatchRun(r, NullEntryError)
                                EXCEPT ![r].validated = @ + 1]
              ELSE /\ run' = [run EXCEPT ![r].validated = @ + 1]
                   /\ UNCHANGED <<events, delivery>>
    /\ UNCHANGED nextId
    /\ FrameChannel

\* fs.ensureDir rejects: the route's catch publishes the error.
EnsureDirFails(r, sc) ==
    /\ run[r].pc = "ensureDir"
    /\ \E err \in sc.fsErrors : RouteCatch(r, <<>>, err)
    /\ UNCHANGED nextId
    /\ FrameChannel

\* The throw points of a wrapper that the inputs of scope sc reach.
ThrowsAt(fileType, options, sc) ==
    CanThrowAt(fileType, options) \cap (sc.throwPoints \cup {"options", "none"})

\* /single after ensureDir: the started status, then the switch on fileType
\* and the wrapper up to its first await.  The wrapper is handed the options
\* of the body as they are.
SingleStart(r, sc) ==
    /\ run[r].pc = "ensureDir"
    /\ run[r].route = "single"
    /\ LET jobId    == run[r].jobId
           fileType == getFileTypeCategory(run[r].filename)
           started  == emitStatus(io, jobId, "started", "Starting compression")
       IN  IF fileType = "unknown"
           THEN RouteCatch(r, started, NewError(UnsupportedError(fileType)))
           ELSE \E thrownAt \in ThrowsAt(fileType, run[r].options, sc) :
                  LET before == started
                                \o TranscoderStart(fileType, jobId, run[r].options, thrownAt)
                  IN  IF thrownAt = "none"
                      THEN /\ Publish(r, before)
                           /\ run' = [run EXCEPT ![r].pc = "transcoding", ![r].ticks = 0,
                                                 ![r].invoked = @ + 1]
                      ELSE /\ Publish(r, before
                                         \o RouteCatchEvents(run[r].route, jobId,
                                                SyncError(fileType, thrownAt).message))
                           /\ run' = [RouteCatchRun(r, SyncError(fileType, thrownAt))
                                        EXCEPT ![r].outcomes = Append(@, "threw"),
                                               ![r].invoked = @ + 1]
    /\ UNCHANGED nextId
    /\ FrameChannel

\* options.image of a body whose options are null
NullOptionsError == TypeError(<<"Cannot read properties of null (reading 'image')">>)

\* BatchStart with the route's own status event left out.
BatchStart_NoRouteStatus(r) ==
    /\ run[r].pc = "ensureDir"
    /\ run[r].route \in {"batch", "job"}
    /\ IF run[r].options = "null"
       THEN RouteCatch(r, <<>>, NullOptionsError)
       ELSE /\ Publish(r, emitStatus(io, run[r].jobId, "processing",
                                     "Starting batch compression..."))
            /\ run' = [run EXCEPT ![r].pc = "loop", ![r].i = 0, ![r].results = <<>>]
    /\ UNCHANGED nextId
    /\ FrameChannel

\* /batch and /job/:jobId after ensureDir: the route's status, then
\* batchOptions is built (options.image of null options throws), then
\* compressBatch's own status on entry.
BatchStart(r) ==
    /\ run[r].pc = "ensureDir"
    /\ run[r].route \in {"batch", "job"}
    /\ LET jobId  == run[r].jobId
           status == IF run[r].route = "batch"
                     THEN emitStatus(io, jobId, "started", "Starting batch compression")
                     ELSE emitStatus(io, jobId, "processing", "Processing files")
       IN  IF run[r].options = "null"
           THEN RouteCatch(r, status, NullOptionsError)
           ELSE /\ Publish(r, status \o emitStatus(io, jobId, "processing",
                                                   "Starting batch compression..."))
                /\ run' = [run EXCEPT ![r].pc = "loop", ![r].i = 0, ![r].results = <<>>]
    /\ UNCHANGED nextId
    /\ FrameChannel

\* BatchProgress with nothing reserved for archiving: round(i / total * 100).
BatchProgress_FullReserve(jobId, i, total) ==
    emitProgress(io, jobId,
        [progress |-> RoundPercent(i, total), message |-> "Processing file"])

\* The progress event compressBatch publishes before dispatching files[i].
BatchProgress(jobId, i, total) ==
    emitProgress(io, jobId,
        [progress |-> RoundReserve(i, total), message |-> "Processing file"])

\* BatchCatch with the error rethrown: the file's failure ends the batch.
BatchCatch_Rethrows(r, filename, message) ==
    RouteCatchRun(r, NewError(BatchError(message)))

\* BatchCatch with results.unshift in place of results.push.
BatchCatch_Prepends(r, filename, message) ==
    [run EXCEPT ![r].pc = "loop",
                ![r].results = <<FailureRecord(filename, message)>> \o @,
                ![r].i = @ + 1]

\* catch (error) inside the loop: the failure is recorded and the loop goes on.
BatchCatch(r, filename, message) ==
    [run EXCEPT ![r].pc = "loop",
                ![r].results = Append(@, FailureRecord(filename, message)),
                ![r].i = @ + 1]

\* The options compressBatch hands the wrapper of a file: options.image (or
\* video, audio, pdf) of the body, or {} where the body has none.
BatchOptions(options, fileType) ==
    IF options = "resize" /\ fileType = "images" THEN "resize" ELSE "plain"

\* One turn of the loop up to its await: files[i] is read, its category
\* looked up (outside the inner try), the progress event published and the
\* file dispatched.  A wrapper that throws before its first await has the
\* failure recorded in the same turn.
VisitFile(r, sc) ==
    /\ run[r].pc = "loop"
    /\ run[r].i < run[r].total
    /\ \E name \in sc.names :
         LET jobId == run[r].jobId
             prog  == BatchProgress(jobId, run[r].i, run[r].total)
         IN  IF name = NoFilename
             THEN \* path.extname(undefined) throws a TypeError
                  RouteCatch(r, <<>>,
                      NewError(BatchError(<<"The path argument must be of type string">>)))
             ELSE LET fileType == getFileTypeCategory(name) IN
                  IF fileType = "unknown"
                  THEN /\ Publish(r, prog)
                       /\ run' = [BatchCatch(r, name, UnsupportedError(fileType))
                                    EXCEPT ![r].outcomes = Append(@, "unsupported")]
                  ELSE \E thrownAt \in ThrowsAt(fileType,
                                           BatchOptions(run[r].options, fileType), sc) :
                         /\ Publish(r, prog \o TranscoderStart(fileType, jobId,
                                                  BatchOptions(run[r].options, fileType),
                                                  thrownAt))
                         /\ run' = IF thrownAt = "none"
                                   THEN [run EXCEPT ![r].pc = "transcoding",
                                                    ![r].filename = name, ![r].ticks = 0,
                                                    ![r].invoked = @ + 1]
                                   ELSE [BatchCatch(r, name,
                                                    SyncError(fileType, thrownAt).message)
                                           EXCEPT ![r].outcomes = Append(@, "threw"),
                                                  ![r].invoked = @ + 1]
    /\ UNCHANGED nextId
    /\ FrameChannel

\* ffmpeg reports progress while a video or audio file is transcoded.
TranscoderProgress(r, sc) ==
    /\ run[r].pc = "transcoding"
    /\ getFileTypeCategory(run[r].filename) \in {"videos", "audio"}
    /\ run[r].ticks < sc.ticks
    /\ \E percent \in FfmpegPercents :
         Publish(r, TranscoderTick(getFileTypeCategory(run[r].filename), run[r].jobId, percent))
    /\ run' = [run EXCEPT ![r].ticks = @ + 1]
    /\ UNCHANGED nextId
    /\ FrameChannel

\* sharp has written the output: compressImage publishes 'Finalizing...' and
\* awaits getFileSize of the input and of the output.
TranscoderFinalizing(r) ==
    /\ run[r].pc = "transcoding"
    /\ getFileTypeCategory(run[r].filename) = "images"
    /\ Publish(r, TranscoderFinalize("images", run[r].jobId))
    /\ run' = [run EXCEPT ![r].pc = "finalizing"]
    /\ UNCHANGED nextId
    /\ FrameChannel

\* the wrapper in slot r awaits the last getFileSize before it returns:
\* compressImage after 'Finalizing...', the others once the codec library
\* has finished
AwaitsSizes(r) ==
    IF getFileTypeCategory(run[r].filename) = "images"
    THEN run[r].pc = "finalizing"
    ELSE run[r].pc = "transcoding"

\* getFileSize has reported both sizes: the wrapper publishes 100 and returns
\* its result.  /single builds its response and publishes the completion;
\* the batch loop pushes the result and goes on.
TranscoderReturns(r, sc) ==
    /\ AwaitsSizes(r)
    /\ \E sizes \in sc.sizes :
         LET jobId    == run[r].jobId
             fileType == getFileTypeCategory(run[r].filename)
             result   == TranscoderResult(fileType, run[r].i + 1, sizes)
         IN  IF run[r].route = "single"
             THEN LET response == SingleResponse(jobId, run[r].filename, fileType, result) IN
                  /\ Publish(r, TranscoderEnd(fileType, jobId)
                                \o (IF io THEN emitCompletion(io, jobId, response) ELSE <<>>))
                  /\ run' = [run EXCEPT ![r].pc = "completed", ![r].http = 200,
                                        ![r].sentAfter = Len(events'[r]),
                                        ![r].outcomes = Append(@, "returned"),
                                        ![r].results = <<result>>,
                                        ![r].response = response]
             ELSE /\ Publish(r, TranscoderEnd(fileType, jobId))
                  /\ run' = [run EXCEPT ![r].pc = "loop",
                                        ![r].outcomes = Append(@, "returned"),
                                        ![r].results =
                                            Append(@, Spread(result, [originalFilename |-> run[r].filename])),
                                        ![r].i = @ + 1]
    /\ UNCHANGED nextId
    /\ FrameChannel

\* The codec library fails while the wrapper awaits it: the wrapper throws.
\* /single's catch fails the job; the batch loop's inner catch records the
\* failure.
TranscoderThrows(r, sc) ==
    /\ run[r].pc = "transcoding"
    /\ \E cause \in CodecCauses(getFileTypeCategory(run[r].filename)) \cap sc.causes :
         LET err == TranscoderError(getFileTypeCategory(run[r].filename), cause)
         IN  IF run[r].route = "single"
             THEN /\ Publish(r, RouteCatchEvents(run[r].route, run[r].jobId, err.message))
                  /\ run' = [RouteCatchRun(r, err)
                               EXCEPT ![r].outcomes = Append(@, "threw")]
             ELSE /\ Publish(r, <<>>)
                  /\ run' = [BatchCatch(r, run[r].filename, err.message)
                               EXCEPT ![r].outcomes = Append(@, "threw")]
    /\ UNCHANGED nextId
    /\ FrameChannel

\* BatchComplete that publishes compressBatch's result in place of the response.
BatchComplete_EmitsResult(r, before, result, zip) ==
    \E response \in {BatchResponse(run[r].jobId, result)} :
    /\ Publish(r, before \o emitCompletion(io, run[r].jobId, result))
    /\ run' = [run EXCEPT ![r].pc = "completed", ![r].http = 200,
                          ![r].sentAfter = Len(events'[r]),
                          ![r].archive = zip,
                          ![r].response = response]

\* The route's code after compressBatch has returned: totals, response,
\* completion event, res.json.
BatchComplete(r, before, result, zip) ==
    \E response \in {BatchResponse(run[r].jobId, result)} :
    /\ Publish(r, before \o (IF io THEN emitCompletion(io, run[r].jobId, response) ELSE <<>>))
    /\ run' = [run EXCEPT ![r].pc = "completed", ![r].http = 200,
                          ![r].sentAfter = Len(events'[r]),
                          ![r].archive = zip,
                          ![r].response = response]

\* if (results.length > 1 && options.createArchive)
ArchiveWanted(r) == Len(run[r].results) > 1 /\ run[r].createArchive

\* The loop is over and an archive is wanted: 95%, then await createArchive.
StartArchive(r) ==
    /\ run[r].pc = "loop"
    /\ run[r].i = run[r].total
    /\ ArchiveWanted(r)
    /\ Publish(r, emitProgress(io, run[r].jobId,
                     [progress |-> ArchivingPercent, message |-> "Creating archive..."]))
    /\ run' = [run EXCEPT ![r].pc = "archiving"]
    /\ UNCHANGED nextId
    /\ FrameChannel

\* The loop is over and no archive is wanted: 100%, the result is returned
\* and the route completes the job.
FinishBatch(r) ==
    /\ run[r].pc = "loop"
    /\ run[r].i = run[r].total
    /\ ~ArchiveWanted(r)
    /\ BatchComplete(r,
          emitProgress(io, run[r].jobId,
              [progress |-> FullPercent, message |-> "Batch compression completed!"]),
          BatchResult(run[r].results, run[r].total, FALSE), {})
    /\ UNCHANGED nextId
    /\ FrameChannel

\* createArchive resolves: 100%, the result carries the archive path.
ArchiveCreated(r) ==
    /\ run[r].pc = "archiving"
    /\ BatchComplete(r,
          emitProgress(io, run[r].jobId,
              [progress |-> FullPercent, message |-> "Batch compression completed!"]),
          BatchResult(run[r].results, run[r].total, TRUE),
          createArchive(run[r].results))
    /\ UNCHANGED nextId
    /\ FrameChannel

ArchiveError == <<"archiver error">>

\* createArchive rejects: compressBatch's catch rethrows, the route's catch
\* publishes the error.
ArchiveFails(r) ==
    /\ run[r].pc = "archiving"
    /\ RouteCatch(r, <<>>, NewError(BatchError(ArchiveError)))
    /\ UNCHANGED nextId
    /\ FrameChannel

---------------------------------------------------------------------------
(* The sockets: setupWebSocket (src/server.js, lines 146-173) *)

\* Room names a client can send in join-job / leave-job
JoinIds == {ClientJobId} \cup 1..nextId

FrameRuns == UNCHANGED <<run, events, nextId, uploads, calc, util>>

\* a request under this job id is between its acceptance and its terminal event
Running(jobId) ==
    \E r \in Runs :
        /\ run[r].jobId = jobId
        /\ run[r].pc \in {"ensureDir", "loop", "transcoding", "finalizing", "archiving"}

RECURSIVE PublishedUpTo(_)
\* the number of events the requests in the slots 1..r have published
PublishedUpTo(r) == IF r = 0 THEN 0 ELSE Len(events[r]) + PublishedUpTo(r - 1)

\* console.log(`Client ${socket.id} joined job room: ${jobId}`), and the same
\* with "left": the line is added to the console, with the number of events
\* published by then, while fewer than log.keep lines are kept
LogLine(o, line, jobId) ==
    IF Len(log.lines) < log.keep
    THEN [log EXCEPT !.lines = Append(@, [socket |-> o, line |-> line, jobId |-> jobId,
                                          at |-> PublishedUpTo(MaxRuns)])]
    ELSE log

\* the console lines that are not about socket o
LinesOfOthers(o) ==
    LET Other(l) == l.socket # o
    IN  SelectSeq(log.lines, Other)

\* io.on('connection'): a new socket, with a new id; the lines about the
\* socket that had the slot before are dropped.
\* socket.io also puts it in a room named by its own id, which is no job id
\* of the model.
Connect(o) ==
    /\ o \notin connected
    /\ connected' = connected \cup {o}
    /\ activeConnections' = activeConnections \cup {o}
    /\ rooms' = [rooms EXCEPT ![o] = {}]
    /\ left' = [left EXCEPT ![o] = {}]
    /\ log' = [log EXCEPT !.lines = LinesOfOthers(o)]
    /\ UNCHANGED <<delivery, upload>>
    /\ FrameRuns

\* JoinJob that hands the joining socket what the room's job has published.
JoinJob_Replays(o, jobId) ==
    /\ o \in connected
    /\ rooms' = [rooms EXCEPT ![o] = @ \cup {jobId}]
    /\ left' = [left EXCEPT ![o] = @ \ {jobId}]
    /\ delivery' = IF \E r \in Runs : run[r].jobId = jobId /\ events[r] # <<>>
                   THEN LET r == CHOOSE q \in Runs : run[q].jobId = jobId /\ events[q] # <<>>
                        IN  [room |-> jobId, events |-> events[r], to |-> {o}]
                   ELSE delivery
    /\ UNCHANGED <<connected, activeConnections, upload>>
    /\ log' = LogLine(o, "joined", jobId)
    /\ FrameRuns

\* JoinJob that takes a socket that is already in the room out of it.
JoinJob_Toggles(o, jobId) ==
    /\ o \in connected
    /\ rooms' = [rooms EXCEPT ![o] = IF jobId \in @ THEN @ \ {jobId} ELSE @ \cup {jobId}]
    /\ left' = [left EXCEPT ![o] = @ \ {jobId}]
    /\ UNCHANGED <<connected, activeConnections, delivery, upload>>
    /\ log' = LogLine(o, "joined", jobId)
    /\ FrameRuns

\* socket.on('join-job'): socket.join(jobId)
JoinJob(o, jobId) ==
    /\ o \in connected
    /\ rooms' = [rooms EXCEPT ![o] = @ \cup {jobId}]
    /\ left' = [left EXCEPT ![o] = @ \ {jobId}]
    /\ UNCHANGED <<connected, activeConnections, delivery, upload>>
    /\ log' = LogLine(o, "joined", jobId)
    /\ FrameRuns

\* LeaveJob with socket.leave left out: the socket stays in the room.
LeaveJob_StaysInRoom(o, jobId) ==
    /\ o \in connected
    /\ rooms' = rooms
    /\ left' = [left EXCEPT ![o] =
                   IF jobId \in rooms[o] /\ Running(jobId) THEN @ \cup {jobId} ELSE @]
    /\ UNCHANGED <<connected, activeConnections, delivery, upload>>
    /\ log' = LogLine(o, "left", jobId)
    /\ FrameRuns

\* LeaveJob that takes the socket out of every room it is in.
LeaveJob_LeavesAll(o, jobId) ==
    /\ o \in connected
    /\ rooms' = [rooms EXCEPT ![o] = {}]
    /\ left' = [left EXCEPT ![o] =
                   IF jobId \in rooms[o] /\ Running(jobId) THEN @ \cup {jobId} ELSE @]
    /\ UNCHANGED <<connected, activeConnections, delivery, upload>>
    /\ log' = LogLine(o, "left", jobId)
    /\ FrameRuns

\* socket.on('leave-job'): socket.leave(jobId)
LeaveJob(o, jobId) ==
    /\ o \in connected
    /\ rooms' = [rooms EXCEPT ![o] = @ \ {jobId}]
    /\ left' = [left EXCEPT ![o] =
                   IF jobId \in rooms[o] /\ Running(jobId) THEN @ \cup {jobId} ELSE @]
    /\ UNCHANGED <<connected, activeConnections, delivery, upload>>
    /\ log' = LogLine(o, "left", jobId)
    /\ FrameRuns

\* Disconnect with activeConnections.delete left out.
Disconnect_KeepsEntry(o) ==
    /\ o \in connected
    /\ connected' = connected \ {o}
    /\ activeConnections' = activeConnections
    /\ rooms' = [rooms EXCEPT ![o] = {}]
    /\ left' = [left EXCEPT ![o] = @ \cup {jobId \in rooms[o] : Running(jobId)}]
    /\ UNCHANGED <<delivery, upload, log>>
    /\ FrameRuns

\* socket.on('disconnect'); socket.io has taken the socket out of its rooms
Disconnect(o) ==
    /\ o \in connected
    /\ connected' = connected \ {o}
    /\ activeConnections' = activeConnections \ {o}
    /\ rooms' = [rooms EXCEPT ![o] = {}]
    /\ left' = [left EXCEPT ![o] = @ \cup {jobId \in rooms[o] : Running(jobId)}]
    /\ UNCHANGED <<delivery, upload, log>>
    /\ FrameRuns

getActiveConnectionsCount == Cardinality(activeConnections)

---------------------------------------------------------------------------
(* src/routes/upload.js *)

UploadEvent(name, jobId, data) ==
    [kind |-> name, room |-> NoJob, payload |-> Spread([jobId |-> jobId], data)]

FrameUpload ==
    UNCHANGED <<run, events, connected, activeConnections, rooms, uploads, left, log,
               calc, util>>

\* What the upload middleware (multer with fileFilter and limits) passes to
\* its callback when it refuses a request.
UploadErrors ==
    {MulterError("LIMIT_FILE_SIZE", "File too large"),
     MulterError("LIMIT_FILE_COUNT", "Too many files"),
     MulterError("LIMIT_UNEXPECTED_FILE", "Unexpected field"),
     NewError(<<InvalidFileType>>)}

\* new Error('No files uploaded') of POST /upload/progress
NoFilesUploaded == NewError(<<"No files uploaded">>)

UploadRoutes == {"single", "multiple"}

\* POST /upload/single and POST /upload/multiple.  The upload middleware
\* refuses the request (next(err), answered by errorHandler), or delivers no
\* file (400), or delivers n files: the handler awaits getFileInfo, draws a
\* job id and answers with it.  Nothing is published.  The awaits before the
\* answer (the middleware, getFileSize) change nothing another handler sees.
UploadAnswered ==
    /\ Len(uploads) < MaxUploads
    /\ \E route \in UploadRoutes :
         \/ \E err \in UploadErrors :
              /\ uploads' = Append(uploads,
                                [route |-> route, http |-> errorHandler(err).status,
                                 jobId |-> NoJob, totalFiles |-> 0])
              /\ UNCHANGED nextId
         \/ \E n \in 0..(IF route = "single" THEN 1 ELSE MaxUploadFiles) :
              IF n = 0
              THEN /\ uploads' = Append(uploads,
                                     [route |-> route, http |-> 400,
                                      jobId |-> NoJob, totalFiles |-> 0])
                   /\ UNCHANGED nextId
              ELSE /\ uploads' = Append(uploads,
                                     [route |-> route, http |-> 200,
                                      jobId |-> nextId + 1, totalFiles |-> n])
                   /\ nextId' = nextId + 1
    /\ UNCHANGED <<run, events, delivery, connected, activeConnections, rooms, upload, left, log,
                   calc, util>>

\* POST /upload/progress: the handler draws a job id and broadcasts the
\* first uploadProgress.
UploadStart ==
    /\ upload.pc = "idle"
    /\ \E n \in 0..MaxUploadFiles :
         upload' = [pc |-> "receiving", jobId |-> nextId + 1, total |-> n, done |-> 0,
                    http |-> 0]
    /\ nextId' = nextId + 1
    /\ Broadcast(<<UploadEvent("uploadProgress", nextId + 1, [progress |-> 0])>>)
    /\ FrameUpload

\* The upload middleware reports an error, or no file arrived: uploadError
\* with the error's message, then next(err), answered by errorHandler.
UploadFails ==
    /\ upload.pc = "receiving"
    /\ upload.done = 0
    /\ \E err \in UploadErrors \cup (IF upload.total = 0 THEN {NoFilesUploaded} ELSE {}) :
         /\ upload' = [upload EXCEPT !.pc = "failed", !.http = errorHandler(err).status]
         /\ Broadcast(<<UploadEvent("uploadError", upload.jobId, [error |-> err.message])>>)
    /\ UNCHANGED nextId
    /\ FrameUpload

\* getFileInfo resolves for the next file: uploadProgress; after the last
\* file uploadComplete and the response.
UploadFile ==
    /\ upload.pc = "receiving"
    /\ upload.done < upload.total
    /\ LET k    == upload.done + 1
           prog == UploadEvent("uploadProgress", upload.jobId,
                       [progress |-> RoundPercent(k, upload.total)])
       IN  IF k = upload.total
           THEN /\ upload' = [upload EXCEPT !.pc = "done", !.done = k, !.http = 200]
                /\ Broadcast(<<prog, UploadEvent("uploadComplete", upload.jobId,
                                                 [totalFiles |-> upload.total])>>)
           ELSE /\ upload' = [upload EXCEPT !.done = k]
                /\ Broadcast(<<prog>>)
    /\ UNCHANGED nextId
    /\ FrameUpload

---------------------------------------------------------------------------
(* Specifications *)

NoDelivery == [room |-> NoJob, events |-> <<>>, to |-> {}]

\* The server after start-up: no request, no socket, no upload.
\* no console line is kept, except in SpecSockets
NoLog == [keep |-> 0, lines |-> <<>>]

InitState ==
    /\ log = NoLog
    /\ run = [r \in Runs |-> IdleRun]
    /\ events = [r \in Runs |-> <<>>]
    /\ delivery = NoDelivery
    /\ nextId = 0
    /\ connected = {}
    /\ activeConnections = {}
    /\ rooms = [o \in Observers |-> {}]
    /\ left = [o \in Observers |-> {}]
    /\ upload = [pc |-> "idle", jobId |-> NoJob, total |-> 0, done |-> 0, http |-> 0]
    /\ uploads = <<>>

NoCalc == [originalSize |-> 0, compressedSize |-> 0, done |-> FALSE, compressionRatio |-> 0]

NoCall == [fn |-> "none"]

Init == InitState /\ calc = NoCalc /\ util = NoCall

\* The steps of the request in slot r, its inputs drawn from scope sc.
RunStep(r, sc) ==
    \/ SubmitInvalid(r, sc)
    \/ Submit(r, sc)
    \/ SubmitNotFound(r, sc)
    \/ SubmitAccepted(r, sc)
    \/ EnsureDirFails(r, sc)
    \/ SingleStart(r, sc)
    \/ BatchStart(r)
    \/ VisitFile(r, sc)
    \/ TranscoderReturns(r, sc)
    \/ TranscoderThrows(r, sc)
    \/ FinishBatch(r)

\* The steps only a request with an image, ffmpeg input or an archive takes.
LongRunStep(r, sc) ==
    \/ TranscoderProgress(r, sc)
    \/ TranscoderFinalizing(r)
    \/ StartArchive(r)
    \/ ArchiveCreated(r)
    \/ ArchiveFails(r)

\* The handler in slot r is in the middle of a turn of the event loop: between
\* two files of the batch loop, or between the loop and what follows it,
\* compressBatch awaits nothing that returns to the event loop, so no other
\* handler runs until the request has taken its next step.
MidTurn(r) == run[r].pc = "loop"

\* the event loop can run the next step of the request in slot r
Turn(r) == \A q \in Runs \ {r} : ~MidTurn(q)

\* the event loop can run a handler of a socket or of an upload
Quiet == \A q \in Runs : ~MidTurn(q)

ObserverStep ==
    /\ Quiet
    /\ \E o \in Observers :
        \/ Connect(o)
        \/ Disconnect(o)
        \/ \E jobId \in JoinIds : JoinJob(o, jobId)
        \/ \E jobId \in JoinIds : LeaveJob(o, jobId)

UploadStep == Quiet /\ (UploadStart \/ UploadFails \/ UploadFile)

\* One compression request, every input.
Next == RunStep(1, BatchScope) \/ LongRunStep(1, BatchScope)

Spec == Init /\ [][Next]_vars

\* Several compression requests in flight, and the uploads that hand out job
\* ids of their own.
NextService ==
    \/ \E r \in Runs : Turn(r) /\ RunStep(r, LeanScope)
    \/ Quiet /\ UploadAnswered

SpecService == Init /\ [][NextService]_vars

\* One compression request, one upload and the sockets.
NextChannel == RunStep(1, LeanScope) \/ ObserverStep \/ UploadStep

SpecChannel == Init /\ [][NextChannel]_vars

\* One compression request and the sockets that watch it.
NextObserved == RunStep(1, LeanScope) \/ ObserverStep

SpecObserved == Init /\ [][NextObserved]_vars

\* The same, with the console lines of the first MaxMessages join-job and
\* leave-job messages kept; the sockets send no more than that.
InitSockets ==
    /\ log = [NoLog EXCEPT !.keep = MaxMessages]
    /\ run = [r \in Runs |-> IdleRun]
    /\ events = [r \in Runs |-> <<>>]
    /\ delivery = NoDelivery
    /\ nextId = 0
    /\ connected = {}
    /\ activeConnections = {}
    /\ rooms = [o \in Observers |-> {}]
    /\ left = [o \in Observers |-> {}]
    /\ upload = [pc |-> "idle", jobId |-> NoJob, total |-> 0, done |-> 0, http |-> 0]
    /\ uploads = <<>>
    /\ calc = NoCalc
    /\ util = NoCall

SocketStep ==
    /\ Quiet
    /\ \E o \in Observers :
        \/ Connect(o)
        \/ Disconnect(o)
        \/ /\ Len(log.lines) < log.keep
           /\ \E jobId \in JoinIds : JoinJob(o, jobId) \/ LeaveJob(o, jobId)

NextSockets == RunStep(1, LeanScope) \/ SocketStep

SpecSockets == InitSockets /\ [][NextSockets]_vars

\* One call of calculateCompressionRatio on the sizes getFileSize reported.
ComputeRatio ==
    /\ ~calc.done
    /\ calc' = [calc EXCEPT !.done = TRUE,
                            !.compressionRatio =
                                calculateCompressionRatio(calc.originalSize, calc.compressedSize)]
    /\ UNCHANGED <<run, events, delivery, nextId, connected, activeConnections, rooms,
                   upload, uploads, left, log, util>>

\* The function alone, on every pair of sizes up to MaxSize.
InitRatio ==
    /\ InitState
    /\ util = NoCall
    /\ calc \in {[originalSize |-> o, compressedSize |-> c, done |-> FALSE,
                  compressionRatio |-> 0] : o \in 0..MaxSize, c \in 0..MaxSize}

NextRatio == ComputeRatio

SpecRatio == InitRatio /\ [][NextRatio]_vars

EmitFunctions == {"emitProgress", "emitCompletion", "emitError", "emitStatus"}

\* The call fn(io, jobId, ...) with data as the routes pass it.
EmitApply(fn, ioArg, jobId) ==
    CASE fn = "emitProgress"   -> emitProgress(ioArg, jobId,
                                      [progress |-> 0, message |-> "Processing file"])
      [] fn = "emitCompletion" -> emitCompletion(ioArg, jobId, NoResponse)
      [] fn = "emitError"      -> emitError(ioArg, jobId, <<"File not found">>)
      [] fn = "emitStatus"     -> emitStatus(ioArg, jobId, "started", "Starting compression")

\* One call of an emit function: what it publishes goes to the sockets in
\* the room, and the call returns.
EmitCall ==
    /\ util.fn \in EmitFunctions
    /\ ~util.done
    /\ \E evs \in {EmitApply(util.fn, util.io, util.jobId)} :
         /\ util' = [util EXCEPT !.done = TRUE, !.emitted = evs]
         /\ delivery' = IF evs = <<>> THEN delivery
                        ELSE [room |-> evs[1].room, events |-> evs,
                              to |-> InRoom(evs[1].room)]
    /\ UNCHANGED <<run, events, nextId, connected, activeConnections, rooms, upload, uploads, left, log,
                   calc>>

\* The emit functions alone, with and without io and job id, and the sockets.
InitEmit ==
    /\ InitState
    /\ calc = NoCalc
    /\ util \in {[fn |-> fn, io |-> ioArg, jobId |-> jobId, done |-> FALSE, emitted |-> <<>>] :
                    fn \in EmitFunctions, ioArg \in BOOLEAN,
                    jobId \in MissingJobIds \cup {ClientJobId}}

NextEmit == EmitCall \/ ObserverStep

SpecEmit == InitEmit /\ [][NextEmit]_vars

\* The extensions of the filenames handed to the file type functions: the
\* supported ones, their capitalised forms, and some that are not supported
\* ("" is a filename without an extension).
Filenames ==
    getAllSupportedExtensions \cup {p[1] : p \in CasePairs} \cup {".txt", ".exe", ".gz", ""}

\* One call of getFileTypeCategory.
CategoryCall ==
    /\ util.fn = "fileType"
    /\ ~util.categorised
    /\ util' = [util EXCEPT !.categorised = TRUE,
                            !.category = getFileTypeCategory(util.filename)]
    /\ UNCHANGED <<run, events, delivery, nextId, connected, activeConnections, rooms,
                   upload, uploads, left, log, calc>>

\* One call of isFileTypeSupported.
SupportedCall ==
    /\ util.fn = "fileType"
    /\ ~util.checked
    /\ util' = [util EXCEPT !.checked = TRUE,
                            !.supported = isFileTypeSupported(util.filename)]
    /\ UNCHANGED <<run, events, delivery, nextId, connected, activeConnections, rooms,
                   upload, uploads, left, log, calc>>

\* The two file type functions alone, on every filename of Filenames.
InitFileType ==
    /\ InitState
    /\ calc = NoCalc
    /\ util \in {[fn |-> "fileType", filename |-> name,
                   categorised |-> FALSE, category |-> "unknown",
                   checked |-> FALSE, supported |-> FALSE] : name \in Filenames}

NextFileType == CategoryCall \/ SupportedCall

SpecFileType == InitFileType /\ [][NextFileType]_vars

\* Requests of up to MaxFiles ffmpeg or unsupported files, with or without
\* an archive: every await of a request on a transcoder or on the archiver.
LiveScope ==
    [routes      |-> {"single", "batch", "job"},
     names       |-> {".mp4", ".JPG", ".txt"},
     sizes       |-> {<<100, 50>>},
     maxFiles    |-> MaxFiles,
     archive     |-> BOOLEAN,
     ticks       |-> MaxTicks,
     options     |-> {"plain", "null"},
     entries     |-> Entries,
     throwPoints |-> {"setup", "none"},
     causes      |-> {"codec error"},
     fsErrors    |-> {SystemError("EACCES")}]

\* The steps of an accepted request: the continuations the event loop runs
\* once the promise the handler awaits has settled.
Proceed(r, sc) ==
    \/ EnsureDirFails(r, sc)
    \/ SingleStart(r, sc)
    \/ BatchStart(r)
    \/ VisitFile(r, sc)
    \/ TranscoderProgress(r, sc)
    \/ TranscoderFinalizing(r)
    \/ TranscoderReturns(r, sc)
    \/ TranscoderThrows(r, sc)
    \/ FinishBatch(r)
    \/ StartArchive(r)
    \/ ArchiveCreated(r)
    \/ ArchiveFails(r)

\* One compression request and the sockets, every awaited call settling:
\* a continuation that stays runnable is run.
NextLive == RunStep(1, LiveScope) \/ LongRunStep(1, LiveScope) \/ ObserverStep

SpecLive == Init /\ [][NextLive]_vars /\ WF_vars(Proceed(1, LiveScope))

---------------------------------------------------------------------------
(* Properties *)

Range(seq) == {seq[k] : k \in DOMAIN seq}

IsBatch(r) == run[r].route \in {"batch", "job"}

\* how many events of the given kind slot r has published
Published(r, kind) == Cardinality({k \in DOMAIN events[r] : events[r][k].kind = kind})

ErrorsPublished(r) ==
    {events[r][k].payload.error : k \in {n \in DOMAIN events[r] : events[r][n].kind = "error"}}

AnyFailed(r) == \E k \in DOMAIN run[r].results : Failed(run[r].results[k])
AnySucceeded(r) == \E k \in DOMAIN run[r].results : ~Failed(run[r].results[k])

\* the messages of the errors the wrapper of a category can throw
WrapperErrors(fileType) ==
    {TranscoderError(fileType, cause).message : cause \in CodecCauses(fileType)}
    \cup {SyncError(fileType, thrownAt).message : thrownAt \in ThrowPoints \ {"none"}}

TranscoderErrors == UNION {WrapperErrors(c) : c \in DOMAIN SUPPORTED_TYPES}

\* the messages with which fs.ensureDir can fail
EnsureDirErrors == {err.message : err \in FsErrors}

\* what can throw in a batch outside the try around one file
OutsideFileErrors ==
    EnsureDirErrors
    \cup {NullEntryError.message,
          NullOptionsError.message,
          BatchError(<<"The path argument must be of type string">>),
          BatchError(ArchiveError)}

\* C1: in compressBatch a file whose transcoder throws gets a failure record
\* and the loop goes on to the next file: the loop is left only after all
\* N files were visited, and when a batch does end in an error, the error is
\* never a file's transcoder error (nor that error rethrown).
C1_FailureNeverAborts ==
    \A r \in Runs : IsBatch(r) =>
        /\ Len(run[r].results) = run[r].i
        /\ Len(run[r].outcomes) = run[r].i
        /\ \A k \in DOMAIN run[r].outcomes :
               run[r].outcomes[k] = "threw" => Failed(run[r].results[k])
        /\ run[r].pc \in {"archiving", "completed"} => run[r].i = run[r].total
        /\ run[r].pc = "failed" => run[r].error \in OutsideFileErrors

\* a batch of two files completed although the transcoder of the first threw
C1_Witness ==
    \E r \in Runs :
        /\ IsBatch(r)
        /\ run[r].pc = "completed"
        /\ run[r].total = 2
        /\ run[r].outcomes = <<"threw", "returned">>
        /\ Failed(run[r].results[1])
        /\ ~Failed(run[r].results[2])

\* C2 (as claimed): a batch job in which at least one file failed and at
\* least one succeeded ends Completed (one completed event, a success
\* response) and never Failed (no error event), with or without createArchive.
C2_MixedBatchCompletes ==
    \A r \in Runs :
        (/\ IsBatch(r)
         /\ run[r].pc \in {"completed", "failed"}
         /\ AnyFailed(r)
         /\ AnySucceeded(r))
        => /\ run[r].pc = "completed"
           /\ run[r].response.success
           /\ Published(r, "completed") = 1
           /\ Published(r, "error") = 0

\* C3: every batch result has successfulFiles + failedFiles = totalFiles = N,
\* successfulFiles the number of files whose dispatch returned and
\* failedFiles the number whose dispatch threw; with every file succeeding
\* successfulFiles = N and failedFiles = 0.
C3_CountsAddUp ==
    \A r \in Runs :
        (IsBatch(r) /\ run[r].pc = "completed") =>
            LET summary  == run[r].response.summary
                returned == Cardinality({k \in DOMAIN run[r].outcomes :
                                            run[r].outcomes[k] = "returned"})
                threw    == Cardinality({k \in DOMAIN run[r].outcomes :
                                            run[r].outcomes[k] # "returned"})
            IN  /\ summary.totalFiles = run[r].total
                /\ summary.successfulFiles + summary.failedFiles = summary.totalFiles
                /\ summary.successfulFiles = returned
                /\ summary.failedFiles = threw
                /\ threw = 0 => /\ summary.successfulFiles = run[r].total
                                /\ summary.failedFiles = 0

\* a completed batch of two files, one succeeded and one failed
C3_Witness ==
    \E r \in Runs :
        /\ IsBatch(r)
        /\ run[r].pc = "completed"
        /\ run[r].response.summary.totalFiles = 2
        /\ run[r].response.summary.successfulFiles = 1
        /\ run[r].response.summary.failedFiles = 1

\* C4 (as claimed): a batch job in which every file failed still ends
\* Completed: a completed event, no error event, successfulFiles = 0 and
\* failedFiles = N.
C4_AllFailedCompletes ==
    \A r \in Runs :
        (/\ IsBatch(r)
         /\ run[r].pc \in {"completed", "failed"}
         /\ Len(run[r].results) = run[r].total
         /\ ~AnySucceeded(r))
        => /\ run[r].pc = "completed"
           /\ Published(r, "completed") = 1
           /\ Published(r, "error") = 0
           /\ run[r].response.summary.successfulFiles = 0
           /\ run[r].response.summary.failedFiles = run[r].total

\* C5 (as claimed): a socket that has joined only job A receives no event
\* that carries another job id, whatever request publishes it.
C5_TopicIsolation ==
    [][\A o \in Observers : \A a \in JoinIds :
          (delivery' # delivery /\ o \in delivery'.to /\ rooms[o] = {a})
          => \A k \in DOMAIN delivery'.events :
                 delivery'.events[k].payload.jobId = a]_vars

\* a terminal event has been published under this job id
TerminalPublished(jobId) ==
    \E q \in Runs : \E k \in DOMAIN events[q] :
        /\ events[q][k].room = jobId
        /\ events[q][k].kind \in {"completed", "error"}

\* C6 (as claimed): once a completed or error event has been published under
\* a job id, no event of any kind is published under that id again.
C6_TerminalIsLast ==
    [][\A r \in Runs :
          Len(events'[r]) > Len(events[r]) => ~TerminalPublished(run[r].jobId)]_vars

\* C7: an accepted run publishes no terminal event while it runs and ends
\* with exactly one terminal event, its last event: completed (and no error)
\* when it ends Completed, error (and no completed) when it ends Failed.
C7_TerminalExactlyOnce ==
    \A r \in Runs :
        LET completed == Published(r, "completed")
            errors    == Published(r, "error")
        IN  /\ run[r].pc \in {"idle", "validating", "rejected"} => events[r] = <<>>
            /\ run[r].pc \in {"ensureDir", "loop", "transcoding", "finalizing", "archiving"}
                 => completed = 0 /\ errors = 0
            /\ run[r].pc = "completed"
                 => /\ completed = 1 /\ errors = 0
                    /\ events[r][Len(events[r])].kind = "completed"
            /\ run[r].pc = "failed"
                 => /\ completed = 0 /\ errors = 1
                    /\ events[r][Len(events[r])].kind = "error"

\* a batch that ended Failed after its files were processed
C7_Witness ==
    \E r \in Runs :
        /\ IsBatch(r)
        /\ run[r].pc = "failed"
        /\ Len(run[r].results) = 2
        /\ Published(r, "error") = 1
        /\ Published(r, "completed") = 0

\* C8 (as claimed): no error event is caused by a transcoder invocation
\* failing, on a batch route or on /single.
C8_TranscoderNeverFailsJob ==
    \A r \in Runs : ErrorsPublished(r) \cap TranscoderErrors = {}

\* C8 (amended): on the batch routes a failing transcoder never causes an
\* error event, and the job ends Failed only through an error thrown outside
\* the try around one file; on /single a failing transcoder ends the job
\* Failed with one error event carrying the transcoder's error.
C8_Amended ==
    \A r \in Runs :
        /\ IsBatch(r) =>
              /\ ErrorsPublished(r) \subseteq OutsideFileErrors
              /\ run[r].pc = "failed" => run[r].error \in OutsideFileErrors
        /\ (run[r].route = "single" /\ run[r].outcomes = <<"threw">>) =>
              /\ run[r].pc = "failed"
              /\ ErrorsPublished(r) = {run[r].error}
              /\ run[r].error \in WrapperErrors(getFileTypeCategory(run[r].filename))
              /\ Published(r, "error") = 1
              /\ Published(r, "completed") = 0

\* /single ended Failed because its transcoder threw
C8_Witness ==
    \E r \in Runs :
        /\ run[r].route = "single"
        /\ run[r].pc = "failed"
        /\ run[r].outcomes = <<"threw">>
        /\ ErrorsPublished(r) \subseteq TranscoderErrors

\* C9 (as claimed): when archive creation fails, the job still completes:
\* the file results are returned, a completed event is published and no
\* error event or failed response.
C9_ArchiveFailureDowngraded ==
    \A r \in Runs :
        run[r].error = BatchError(ArchiveError) =>
            /\ run[r].pc = "completed"
            /\ run[r].response.success
            /\ Published(r, "completed") = 1
            /\ Published(r, "error") = 0

\* C10 (as claimed): a batch request naming a missing file is carried out,
\* the missing file getting a failure record and the job completing.
C10_MissingFileIsFileFailure ==
    \A r \in Runs :
        (IsBatch(r) /\ run[r].notFound # 0) =>
            /\ run[r].pc # "rejected"
            /\ run[r].pc = "completed" =>
                  /\ Failed(run[r].results[run[r].notFound])
                  /\ run[r].response.summary.failedFiles >= 1

\* C10 (amended): a batch request naming a file that is missing or unreadable
\* when the route validates it is rejected as a whole with 404: no file is
\* processed, no failure record is made, no event is published.  A file that
\* passed validation and whose transcoder then throws is a per-file failure:
\* it gets a failure record and the completed job counts it in failedFiles.
C10_Amended ==
    \A r \in Runs : IsBatch(r) =>
        /\ run[r].notFound # 0 =>
              /\ run[r].pc = "rejected"
              /\ run[r].http = 404
              /\ run[r].results = <<>>
              /\ run[r].outcomes = <<>>
              /\ events[r] = <<>>
        /\ \A k \in DOMAIN run[r].outcomes :
              run[r].outcomes[k] = "threw" =>
                  /\ Failed(run[r].results[k])
                  /\ run[r].pc = "completed" =>
                        run[r].response.summary.failedFiles >= 1

\* a batch request of two files rejected because the second is missing
C10_Witness ==
    \E r \in Runs :
        /\ IsBatch(r)
        /\ run[r].pc = "rejected"
        /\ run[r].total = 2
        /\ run[r].notFound = 2
        /\ run[r].http = 404

---------------------------------------------------------------------------
(* Dispatch and progress *)

\* how many times slot r has called a transcoder wrapper (compressImage,
\* compressVideo, compressAudio, compressPDF), whether or not the wrapper got
\* as far as its first status event
Invocations(r) == run[r].invoked

\* how many of the files visited so far had an unsupported category
UnsupportedVisited(r) ==
    Cardinality({k \in DOMAIN run[r].outcomes : run[r].outcomes[k] = "unsupported"})

\* C11 (as claimed): no error event is ever published because a file's
\* category is unsupported or unknown, on any route.
C11_UnsupportedNeverFailsJob ==
    \A r \in Runs :
        ErrorsPublished(r) \cap
            {UnsupportedError("unknown"), BatchError(UnsupportedError("unknown"))} = {}

\* C11 (amended): in a batch a file of unsupported category gets a failure
\* record carrying the unsupported-type error, no transcoder is invoked for it
\* (invocations = visited files of a supported category), and no error event
\* carries its error.  On /single the unsupported category ends the job
\* Failed: no transcoder is invoked and one error event carries the error.
C11_Amended ==
    \A r \in Runs :
        /\ IsBatch(r) =>
              /\ \A k \in DOMAIN run[r].outcomes :
                     run[r].outcomes[k] = "unsupported" =>
                         /\ k \in DOMAIN run[r].results
                         /\ Failed(run[r].results[k])
                         /\ run[r].results[k].error = UnsupportedError("unknown")
              /\ Invocations(r) =
                     Len(run[r].outcomes) - UnsupportedVisited(r)
                     + (IF run[r].pc \in {"transcoding", "finalizing"} THEN 1 ELSE 0)
              /\ ErrorsPublished(r) \cap
                     {UnsupportedError("unknown"),
                      BatchError(UnsupportedError("unknown"))} = {}
              /\ run[r].pc = "failed" =>
                     run[r].error # BatchError(UnsupportedError("unknown"))
        /\ (/\ run[r].route = "single"
            /\ run[r].pc \in {"transcoding", "completed", "failed"}
            /\ getFileTypeCategory(run[r].filename) = "unknown"
            /\ run[r].error \notin EnsureDirErrors) =>
              /\ run[r].pc = "failed"
              /\ Invocations(r) = 0
              /\ ErrorsPublished(r) = {UnsupportedError("unknown")}
              /\ Published(r, "error") = 1
              /\ Published(r, "completed") = 0

\* a batch completed with an unsupported first file and a compressed second
C11_Witness ==
    \E r \in Runs :
        /\ IsBatch(r)
        /\ run[r].pc = "completed"
        /\ run[r].outcomes = <<"unsupported", "returned">>
        /\ Invocations(r) = 1
        /\ run[r].response.summary.failedFiles = 1

\* The percent values of the progress events slot r has published, in order.
Percents(r) ==
    LET IsProgress(e) == e.kind = "progress"
        progress == SelectSeq(events[r], IsProgress)
    IN  [k \in DOMAIN progress |-> progress[k].payload.progress]

NonDecreasing(seq) == \A k \in 1..(Len(seq) - 1) : seq[k] <= seq[k + 1]

\* C12 (as claimed): in a batch with no archive requested the percent values
\* of the progress events published under the job id never decrease, and
\* when the batch has completed the last of them is 100.
C12_ProgressMonotone ==
    \A r \in Runs :
        (IsBatch(r) /\ ~run[r].createArchive) =>
            /\ NonDecreasing(Percents(r))
            /\ run[r].pc = "completed" =>
                  /\ Percents(r) # <<>>
                  /\ Percents(r)[Len(Percents(r))] = FullPercent

\* C13 (as claimed): in a batch with archiving requested every progress event
\* published before the archive step has percent <= 90, and a progress event
\* with percent 100 is published only once the archive step is over (the
\* batch has completed, or the archive failure has been reported).
C13_ArchiveCapsProgress ==
    \A r \in Runs :
        (IsBatch(r) /\ run[r].createArchive) =>
            /\ run[r].pc \in {"loop", "transcoding", "finalizing"} =>
                  \A k \in DOMAIN Percents(r) : Percents(r)[k] <= ArchiveReserve
            /\ (\E k \in DOMAIN Percents(r) : Percents(r)[k] = FullPercent) =>
                  run[r].pc \in {"completed", "failed"}

\* The percent values of the events compressBatch publishes before
\* dispatching a file, in order: the k-th belongs to the file at index k - 1.
FilePercents(r) ==
    LET IsFileProgress(e) == e.kind = "progress" /\ e.payload.message = "Processing file"
        progress == SelectSeq(events[r], IsFileProgress)
    IN  [k \in DOMAIN progress |-> progress[k].payload.progress]

\* files for which the loop has published its progress event
Announced(r) ==
    IF run[r].pc \in {"transcoding", "finalizing"} THEN run[r].i + 1
    ELSE Len(run[r].outcomes)

\* p is an integer nearest to num / den (either neighbour at a half), den > 0
Nearest(p, num, den) ==
    /\ 2 * num - den <= 2 * p * den
    /\ 2 * p * den <= 2 * num + den

\* C14 (as claimed): the progress event published before the file at index i
\* of N has as percent i / N * reserve rounded to a nearest integer, reserve
\* being 90 when archiving is requested and 100 otherwise.
C14_ReserveFollowsArchive ==
    \A r \in Runs : IsBatch(r) =>
        \A k \in DOMAIN FilePercents(r) :
            Nearest(FilePercents(r)[k],
                    (k - 1) * (IF run[r].createArchive THEN ArchiveReserve ELSE FullPercent),
                    run[r].total)

\* C14 (amended): compressBatch publishes one such event per visited file,
\* and the one for index i of N has as percent an integer nearest to
\* i / N * 90, whether or not archiving is requested.
C14_Amended ==
    \A r \in Runs : IsBatch(r) =>
        /\ Len(FilePercents(r)) = Announced(r)
        /\ \A k \in DOMAIN FilePercents(r) :
               Nearest(FilePercents(r)[k], (k - 1) * ArchiveReserve, run[r].total)

\* a batch of two files without archiving announced its second file at 45
C14_Witness ==
    \E r \in Runs :
        /\ IsBatch(r)
        /\ ~run[r].createArchive
        /\ run[r].total = 2
        /\ FilePercents(r) = <<0, 45>>

\* createArchive has been called for slot r's batch
ArchiveInvoked(r) ==
    \/ run[r].pc = "archiving"
    \/ run[r].pc = "completed" /\ "archivePath" \in DOMAIN run[r].response
    \/ run[r].pc = "failed" /\ run[r].error = BatchError(ArchiveError)

\* every file of slot r's batch has been visited and the loop has been left
LoopLeft(r) ==
    /\ run[r].pc \in {"archiving", "completed", "failed"}
    /\ Len(run[r].results) = run[r].total

\* C15 (as claimed): once all files of a batch are visited, the archive step
\* is invoked if and only if archiving was requested and more than one file
\* succeeded.
C15_ArchiveIffSeveralSucceeded ==
    \A r \in Runs :
        (IsBatch(r) /\ LoopLeft(r)) =>
            (ArchiveInvoked(r) <=>
                (run[r].createArchive /\ CountSucceeded(run[r].results) > 1))

\* C16: whenever a batch completes with an archive, the entries of the
\* archive are exactly the outputs of the files whose transcoder returned (a
\* file's output path is its position in the batch): one entry per
\* successful file, none for a failed one; with two files that both succeed
\* it has two entries; and the last progress event published is 100.
C16_ArchiveEntries ==
    \A r \in Runs :
        (/\ IsBatch(r)
         /\ run[r].pc = "completed"
         /\ "archivePath" \in DOMAIN run[r].response) =>
            /\ run[r].archive =
                  {k \in DOMAIN run[r].outcomes : run[r].outcomes[k] = "returned"}
            /\ Cardinality(run[r].archive) = run[r].response.summary.successfulFiles
            /\ \A k \in DOMAIN run[r].results :
                  Failed(run[r].results[k]) => k \notin run[r].archive
            /\ run[r].outcomes = <<"returned", "returned">> =>
                  Cardinality(run[r].archive) = 2
            /\ Percents(r)[Len(Percents(r))] = FullPercent
            /\ events[r][Len(events[r]) - 1].kind = "progress"
            /\ events[r][Len(events[r]) - 1].payload.progress = FullPercent

\* two files, both compressed, archived together
C16_Witness ==
    \E r \in Runs :
        /\ IsBatch(r)
        /\ run[r].pc = "completed"
        /\ run[r].createArchive
        /\ run[r].outcomes = <<"returned", "returned">>
        /\ run[r].archive = {1, 2}
        /\ run[r].response.archivePath = ArchivePath

\* C17 (as claimed): the first event an accepted job publishes is a status
\* event with status "started", on every submission route.
C17_FirstEventStarted ==
    \A r \in Runs :
        events[r] # <<>> =>
            /\ events[r][1].kind = "status"
            /\ events[r][1].payload.status = "started"

\* C17 (amended): the first event of an accepted job is a status event, with
\* status "started" on /single and /batch and "processing" on /job/:jobId,
\* and it precedes every progress event; the exceptions are a job whose
\* output directory cannot be prepared and a batch whose file list holds a
\* null entry, whose only event is the error.
C17_Amended ==
    \A r \in Runs :
        events[r] # <<>> =>
            LET first == events[r][1] IN
            /\ \/ /\ first.kind = "status"
                  /\ first.payload.status =
                        (IF run[r].route = "job" THEN "processing" ELSE "started")
               \/ /\ first.kind = "error"
                  /\ Len(events[r]) = 1
                  /\ run[r].pc = "failed"
                  /\ run[r].error \in EnsureDirErrors \cup {NullEntryError.message}
            /\ \A k \in DOMAIN events[r] : events[r][k].kind = "progress" => k > 1

\* a job submitted to /job/:jobId has published its first status and a
\* progress event
C17_Witness ==
    \E r \in Runs :
        /\ run[r].route = "job"
        /\ Len(events[r]) >= 3
        /\ events[r][1].kind = "status"
        /\ events[r][1].payload.status = "processing"
        /\ Published(r, "progress") >= 1

---------------------------------------------------------------------------
(* The channel *)

\* the events slot r publishes in the step from the current state to the next
NewEvents(r) == SubSeq(events'[r], Len(events[r]) + 1, Len(events'[r]))

\* C19: a socket that sent leave-job for a job while it was running is
\* handed none of the events the job publishes afterwards, while every
\* socket still subscribed to the job id is handed all of them, the terminal
\* event included.
C19_LeaverReceivesNothing ==
    [][\A r \in Runs :
          events'[r] # events[r] =>
              \A o \in Observers :
                  /\ run'[r].jobId \in left[o] => o \notin delivery'.to
                  /\ (o \in connected /\ run'[r].jobId \in rooms[o]) =>
                        /\ o \in delivery'.to
                        /\ delivery'.events = NewEvents(r)]_vars

\* the job has completed: socket 1, which left the room while the job was
\* running, was not handed the completed event; socket 2, still in the room,
\* was
C19_Witness ==
    /\ run[1].pc = "completed"
    /\ 1 \in connected
    /\ run[1].jobId \in left[1]
    /\ delivery.room = run[1].jobId
    /\ delivery.events[Len(delivery.events)].kind = "completed"
    /\ delivery.to = {2}
    /\ run[1].jobId \in rooms[2]

\* the errors with which a request fails for reasons of its own
OwnErrors ==
    {UnsupportedError("unknown")} \cup TranscoderErrors \cup OutsideFileErrors

\* C20: when a request publishes under a job id nobody is subscribed to, no
\* socket is handed anything, the sockets' connections and rooms stay as
\* they were, and the request goes on as it would have: it keeps its job id
\* and, if it fails in that step, fails with an error of its own.
C20_NoSubscribersNoEffect ==
    [][\A r \in Runs :
          (events'[r] # events[r] /\ InRoom(run'[r].jobId) = {}) =>
              /\ delivery'.room = run'[r].jobId
              /\ delivery'.to = {}
              /\ UNCHANGED <<connected, activeConnections, rooms, left>>
              /\ run[r].pc # "idle" => run'[r].jobId = run[r].jobId
              /\ run'[r].pc # "rejected"
              /\ run'[r].pc = "failed" => run'[r].error \in OwnErrors]_vars

\* a job ran to completion and its completed event was handed to nobody,
\* while a socket was connected without being in the job's room
C20_Witness ==
    /\ run[1].pc = "completed"
    /\ delivery.room = run[1].jobId
    /\ delivery.events[Len(delivery.events)].kind = "completed"
    /\ delivery.to = {}
    /\ connected # {}

---------------------------------------------------------------------------
(* Termination, job ids and subscriptions *)

\* the request in slot r has been accepted and has not answered yet
Accepted(r) ==
    run[r].pc \in {"ensureDir", "loop", "transcoding", "finalizing", "archiving"}

\* the request in slot r has published its one terminal event and answered
Settled(r) ==
    /\ run[r].pc \in {"completed", "failed"}
    /\ Published(r, "completed") + Published(r, "error") = 1
    /\ events[r][Len(events[r])].kind \in {"completed", "error"}
    /\ run[r].http # 0

\* C21: when every transcoder and archive invocation settles, an accepted
\* job eventually publishes a terminal event and answers its request, and
\* no connect, join-job, leave-job or disconnect of a socket touches the
\* request or what it has published.
C21_AcceptedJobSettles ==
    /\ Accepted(1) ~> Settled(1)
    /\ [][ObserverStep => UNCHANGED <<run, events, nextId>>]_vars

\* the job settled after its last watcher left the room while it was running
C21_Witness ==
    /\ Settled(1)
    /\ \E o \in Observers : run[1].jobId \in left[o]
    /\ InRoom(run[1].jobId) = {}
    /\ delivery.room = run[1].jobId
    /\ delivery.to = {}

\* the request in slot r has passed validation: every file of its list
\* exists, and the handler has reached fs.ensureDir or gone beyond it
PastValidation(r) ==
    /\ run[r].pc \notin {"idle", "validating", "rejected"}
    /\ run[r].validated = run[r].total

\* two different request slots whose requests were both accepted
BothAccepted(r1, r2) ==
    /\ r1 # r2
    /\ PastValidation(r1)
    /\ PastValidation(r2)

\* C22: at any time at most one transcoder invocation is in progress under
\* a job id: two requests that are both awaiting a transcoder never carry
\* the same job id.
C22_OneTranscoderPerJob ==
    \A r1, r2 \in Runs :
        (r1 # r2 /\ run[r1].pc = "transcoding" /\ run[r2].pc = "transcoding")
            => run[r1].jobId # run[r2].jobId

\* C23: no job id is reused: two accepted requests, on any route, run and
\* publish under different job ids.
C23_JobIdsDistinct ==
    \A r1, r2 \in Runs : BothAccepted(r1, r2) => run[r1].jobId # run[r2].jobId

\* the sockets of a step's fan-out are those in the room, and they are
\* handed the events of the step, each once and in publication order
DeliveredOnce(r) ==
    events'[r] # events[r] =>
        /\ delivery'.events = NewEvents(r)
        /\ delivery'.to = InRoom(run'[r].jobId)

\* the step handles the message of socket o that writes this console line
Wrote(o, line, jobId) ==
    /\ Len(log'.lines) = Len(log.lines) + 1
    /\ log'.lines[Len(log'.lines)].socket = o
    /\ log'.lines[Len(log'.lines)].line = line
    /\ log'.lines[Len(log'.lines)].jobId = jobId

\* the sockets that would be handed an event of room jobId after the step
InRoomAfter(jobId) == {o \in connected' : jobId \in rooms'[o]}

\* the console lines of socket o that name room jobId, in order
LinesAbout(o, jobId) ==
    LET Names(l) == l.socket = o /\ l.jobId = jobId
    IN  SelectSeq(log.lines, Names)

\* C24: subscribing is idempotent.  A join-job of a socket that is already
\* in the room leaves every room, every connection and the fan-out as they
\* were; a connected socket whose last message about the job's room was a
\* join-job, however many it sent before, is handed what the job publishes,
\* each event once; one whose last message about it was a leave-job, however
\* many join-jobs went before, is handed nothing.
C24_JoinIdempotent ==
    [][/\ \A o \in Observers, jobId \in JoinIds :
            /\ (Wrote(o, "joined", jobId) /\ jobId \in rooms[o]) =>
                  /\ \A any \in JoinIds : InRoomAfter(any) = InRoom(any)
                  /\ UNCHANGED <<run, events, delivery, nextId, connected,
                                 activeConnections, rooms, upload, uploads, left>>
            /\ Wrote(o, "joined", jobId) => (jobId \in rooms'[o] /\ UNCHANGED delivery)
            /\ Wrote(o, "left", jobId) => jobId \notin rooms'[o]
       /\ DeliveredOnce(1)
       /\ events'[1] # events[1] =>
            \A o \in connected :
                LET about == LinesAbout(o, run'[1].jobId)
                IN  IF about # <<>> /\ about[Len(about)].line = "joined"
                    THEN o \in delivery'.to
                    ELSE o \notin delivery'.to]_vars

\* socket 1 sent join-job for the job's room twice and, after the job had
\* published again, leave-job once; the job has published since, and its
\* latest events were handed to no socket
C24_Witness ==
    /\ run[1].jobId # NoJob
    /\ 1 \in connected
    /\ Len(log.lines) = 3
    /\ \A k \in 1..3 : log.lines[k].socket = 1 /\ log.lines[k].jobId = run[1].jobId
    /\ \A k \in 1..2 : log.lines[k].line = "joined"
    /\ log.lines[3].line = "left"
    /\ log.lines[2].at < log.lines[3].at
    /\ log.lines[3].at < Len(events[1])
    /\ delivery.room = run[1].jobId
    /\ delivery.events # <<>>
    /\ delivery.to = {}

\* C25: a leave-job for a room the socket is not in is a no-op: the members
\* of every room, the rooms of every socket, the connections and the fan-out
\* are as they were.  Any leave-job leaves the members of every other room,
\* and the socket's other rooms, as they were.
C25_LeaveNotJoinedNoOp ==
    [][\A o \in Observers, jobId \in JoinIds :
          Wrote(o, "left", jobId) =>
            /\ jobId \notin rooms[o] =>
                  /\ \A any \in JoinIds : InRoomAfter(any) = InRoom(any)
                  /\ UNCHANGED <<run, events, delivery, nextId, connected,
                                 activeConnections, rooms, upload, uploads, left>>
            /\ rooms'[o] \ {jobId} = rooms[o] \ {jobId}
            /\ \A other \in JoinIds \ {jobId} : InRoomAfter(other) = InRoom(other)
            /\ InRoomAfter(jobId) \ {o} = InRoom(jobId) \ {o}]_vars

\* socket 2 joined a room of its own, socket 1 joined the running job's
\* room and then sent leave-job for the room of socket 2, which it never
\* joined: it is still in the job's room and was handed what the job
\* published afterwards, and socket 2 is still in its room
C25_Witness ==
    /\ run[1].pc = "transcoding"
    /\ run[1].jobId # ClientJobId
    /\ {1, 2} \subseteq connected
    /\ Len(log.lines) = 3
    /\ LinesAbout(2, ClientJobId) # <<>>
    /\ LinesAbout(1, run[1].jobId) # <<>>
    /\ log.lines[3] = [socket |-> 1, line |-> "left", jobId |-> ClientJobId,
                       at |-> log.lines[3].at]
    /\ log.lines[3].at < Len(events[1])
    /\ rooms[1] = {run[1].jobId}
    /\ rooms[2] = {ClientJobId}
    /\ delivery.room = run[1].jobId
    /\ delivery.to = {1}

\* C27: there is no replay.  A join-job publishes nothing and hands the
\* joining socket nothing; what a step hands out is what that step
\* published, to the sockets that were in the room before the step.
C27_NoReplay ==
    [][/\ \A o \in Observers, jobId \in JoinIds :
            JoinJob(o, jobId) => UNCHANGED <<delivery, events>>
       /\ delivery' # delivery =>
            /\ delivery'.events = NewEvents(1)
            /\ delivery'.to = InRoom(delivery'.room)]_vars

\* socket 1 is in the job's room, which was empty when the terminal event
\* was published: it joined afterwards and was handed nothing
C27_Witness ==
    /\ run[1].pc \in {"completed", "failed"}
    /\ 1 \in connected
    /\ run[1].jobId \in rooms[1]
    /\ run[1].jobId \notin left[1]
    /\ delivery.room = run[1].jobId
    /\ delivery.events[Len(delivery.events)].kind \in {"completed", "error"}
    /\ delivery.to = {}

---------------------------------------------------------------------------
(* The compression ratio and the totals of a batch *)

Abs(n) == IF n < 0 THEN -n ELSE n

\* ratio is an integer nearest to (original - compressed) / original * 100
NearestPercent(ratio, original, compressed) ==
    2 * Abs(ratio * original - 100 * (original - compressed)) <= original

\* C28: calculateCompressionRatio returns 0 for original = 0 and otherwise
\* the rounded percentage saved, which is negative whenever compressed >
\* original; (100, 50) gives 50 and (100, 150) gives -50.
C28_RatioAsStated ==
    calc.done =>
        LET o == calc.originalSize
            c == calc.compressedSize
        IN  /\ o = 0 => calc.compressionRatio = 0
            /\ o > 0 => NearestPercent(calc.compressionRatio, o, c)
            /\ (o > 0 /\ c > o) => calc.compressionRatio < 0
            /\ (o = 100 /\ c = 50) => calc.compressionRatio = 50
            /\ (o = 100 /\ c = 150) => calc.compressionRatio = -50

\* C28, amended: as above, but for compressed > original the ratio is never
\* positive, and it is negative once the growth exceeds half a percent of
\* original; below that it is 0.
C28_Amended ==
    calc.done =>
        LET o == calc.originalSize
            c == calc.compressedSize
        IN  /\ o = 0 => calc.compressionRatio = 0
            /\ o > 0 => NearestPercent(calc.compressionRatio, o, c)
            /\ (o > 0 /\ c > o) =>
                  /\ calc.compressionRatio <= 0
                  /\ calc.compressionRatio < 0 <=> 200 * (c - o) > o
            /\ (o = 100 /\ c = 50) => calc.compressionRatio = 50
            /\ (o = 100 /\ c = 150) => calc.compressionRatio = -50

\* a file that grew by one byte in 201: the ratio is 0
C28_Witness ==
    /\ calc.done
    /\ calc.originalSize = 201
    /\ calc.compressedSize = 202
    /\ calc.compressionRatio = 0

\* what file k of the job adds to a total: its size, or 0 when it failed
Contribution(r, k, field) ==
    IF Failed(run[r].results[k]) THEN 0 ELSE run[r].results[k][field]

RECURSIVE TotalUpTo(_, _, _)
\* the contributions of the files 1..k of the job
TotalUpTo(r, k, field) ==
    IF k = 0 THEN 0 ELSE TotalUpTo(r, k - 1, field) + Contribution(r, k, field)

\* C29 as stated: the summary of a completed batch reports the sums of the
\* original and of the compressed sizes over the files of the job, a failed
\* file adding 0 to both, and overallRatio as the percentage saved rounded,
\* a half-way percentage going up, or 0 when the original total is 0.
C29_TotalsAreSums ==
    (IsBatch(1) /\ run[1].pc = "completed") =>
        LET summary    == run[1].response.summary
            original   == TotalUpTo(1, run[1].total, "originalSize")
            compressed == TotalUpTo(1, run[1].total, "compressedSize")
        IN  /\ Len(run[1].results) = run[1].total
            /\ summary.totalOriginalSize = original
            /\ summary.totalCompressedSize = compressed
            /\ summary.overallRatio =
                  IF original = 0 THEN 0
                  ELSE (200 * (original - compressed) + original) \div (2 * original)

\* C29, amended: the summary of a completed batch reports the sums of the
\* original and of the compressed sizes over the files of the job, a failed
\* file adding 0 to both, and overallRatio is an integer nearest to the
\* percentage saved (either neighbour of a half-way percentage), or 0 when
\* the original total is 0.
C29_Amended ==
    (IsBatch(1) /\ run[1].pc = "completed") =>
        LET summary    == run[1].response.summary
            original   == TotalUpTo(1, run[1].total, "originalSize")
            compressed == TotalUpTo(1, run[1].total, "compressedSize")
        IN  /\ Len(run[1].results) = run[1].total
            /\ summary.totalOriginalSize = original
            /\ summary.totalCompressedSize = compressed
            /\ original = 0 => summary.overallRatio = 0
            /\ original > 0 =>
                  Nearest(summary.overallRatio, 100 * (original - compressed), original)

\* a batch of two files, 40 to 17 bytes and 160 to 292 bytes: the totals are
\* 200 and 309 bytes, a growth of 54.5%, reported as -55
C29_Witness ==
    /\ IsBatch(1) /\ run[1].pc = "completed"
    /\ run[1].total = 2
    /\ CountFailed(run[1].results) = 0
    /\ run[1].results[1].originalSize # run[1].results[2].originalSize
    /\ run[1].response.summary.totalOriginalSize = 200
    /\ run[1].response.summary.totalCompressedSize = 309
    /\ run[1].response.summary.overallRatio = -55

\* the outcomes of the files 1..i are recorded, one entry each, and an entry
\* of a transcoded file carries the output of the file at its own index
RecordedInOrder(r) ==
    /\ Len(run[r].results) = Len(run[r].outcomes)
    /\ run[r].pc \in {"loop", "transcoding", "finalizing"} => Len(run[r].results) = run[r].i
    /\ \A k \in DOMAIN run[r].results :
          Succeeded(run[r].results[k]) <=> run[r].outcomes[k] = "returned"
    /\ \A k \in DOMAIN run[r].results :
          Succeeded(run[r].results[k]) => run[r].results[k].compressedPath = k

\* C30: within a batch the files are processed in input order.  While the
\* transcoder of file i + 1 runs, the outcomes of the files 1..i and no
\* others are recorded; each step records at most the outcome of the file
\* the loop is at, after those recorded before; the result list is in input
\* order.
C30_InputOrder ==
    /\ [](IsBatch(1) => RecordedInOrder(1))
    /\ [][IsBatch(1) =>
            /\ (run[1].pc = "loop" /\ run'[1].pc = "transcoding")
                  => (Len(run[1].results) = run[1].i /\ run'[1].i = run[1].i)
            /\ run'[1].results # run[1].results =>
                  /\ Len(run'[1].results) = Len(run[1].results) + 1
                  /\ SubSeq(run'[1].results, 1, Len(run[1].results)) = run[1].results
                  /\ run'[1].i = run[1].i + 1
                  /\ run[1].pc \in {"transcoding", "finalizing"} =>
                        run'[1].results[run'[1].i].originalFilename = run[1].filename]_vars

\* a batch of two: the first file's transcoder threw, the second file's
\* returned, and the list holds the failure first and the output of file 2
\* second
C30_Witness ==
    /\ IsBatch(1) /\ run[1].pc = "completed"
    /\ run[1].total = 2
    /\ run[1].outcomes = <<"threw", "returned">>
    /\ Failed(run[1].results[1])
    /\ run[1].results[2].compressedPath = 2
    /\ Invocations(1) = 2

---------------------------------------------------------------------------
(* Outcome entries, rejected requests, payloads *)

OutputFields == {"compressedPath", "originalSize", "compressedSize", "compressionRatio"}

\* an entry with the failed flag and a message, and nothing of an output
IsFailureRecord(entry) ==
    /\ "failed" \in DOMAIN entry /\ entry.failed
    /\ "error" \in DOMAIN entry
    /\ OutputFields \cap DOMAIN entry = {}

\* an entry with an output and its sizes, and neither flag nor message
IsCompressionResult(entry) ==
    /\ OutputFields \subseteq DOMAIN entry
    /\ "failed" \notin DOMAIN entry
    /\ "error" \notin DOMAIN entry

\* C31: a batch that completes has one outcome entry per input file; every
\* entry is a failure record or a compression result, never both and never
\* neither; while the loop runs the files it has not reached have no entry.
C31_OneOutcomePerFile ==
    IsBatch(1) =>
        /\ run[1].pc = "completed" =>
              /\ Len(run[1].results) = run[1].total
              /\ Len(run[1].response.files) = run[1].total
        /\ run[1].pc \in {"loop", "transcoding", "finalizing"} =>
              /\ Len(run[1].results) = run[1].i
              /\ run[1].i <= run[1].total
        /\ \A k \in DOMAIN run[1].results :
              /\ IsFailureRecord(run[1].results[k]) \/ IsCompressionResult(run[1].results[k])
              /\ ~(IsFailureRecord(run[1].results[k]) /\ IsCompressionResult(run[1].results[k]))
              /\ IsFailureRecord(run[1].results[k]) <=> run[1].outcomes[k] # "returned"

\* a completed batch of two with a result for the first file and a failure
\* record, of an unsupported type, for the second
C31_Witness ==
    /\ IsBatch(1) /\ run[1].pc = "completed"
    /\ run[1].total = 2
    /\ run[1].outcomes = <<"returned", "unsupported">>
    /\ IsCompressionResult(run[1].results[1])
    /\ IsFailureRecord(run[1].results[2])

\* C32: a request rejected at validation, with 400 or with 404, publishes
\* no event, hands nothing to any socket and invokes no transcoder and no
\* archive step, on each of the three routes.
C32_RejectedIsSilent ==
    /\ [](run[1].pc = "rejected" =>
             /\ run[1].http \in {400, 404}
             /\ events[1] = <<>>
             /\ delivery = NoDelivery
             /\ run[1].results = <<>> /\ run[1].outcomes = <<>>
             /\ Invocations(1) = 0
             /\ run[1].archive = {})
    /\ [][(run[1].pc # "rejected" /\ run'[1].pc = "rejected")
             => (run[1].pc \in {"idle", "validating"} /\ UNCHANGED <<events, delivery>>)]_vars

\* POST /job/:jobId answered 404 while a socket is in the room of that id:
\* nothing was published
C32_Witness ==
    /\ run[1].pc = "rejected"
    /\ run[1].route = "job"
    /\ run[1].http = 404
    /\ 1 \in connected /\ run[1].jobId \in rooms[1]
    /\ events[1] = <<>>
    /\ delivery = NoDelivery

\* C33: every event published to the room of a job id carries that id as
\* payload.jobId, and it is the id of the request that published it.
C33_PayloadCarriesJobId ==
    \A k \in DOMAIN events[1] :
        /\ events[1][k].kind \in {"status", "progress", "completed", "error"}
        /\ events[1][k].payload.jobId = events[1][k].room
        /\ events[1][k].room = run[1].jobId

\* a completed batch with an archive has published events of all kinds but
\* error, the completion carrying the response's own jobId field
C33_Witness ==
    /\ IsBatch(1) /\ run[1].pc = "completed"
    /\ run[1].archive # {}
    /\ Published(1, "status") > 0
    /\ Published(1, "progress") > 0
    /\ Published(1, "completed") = 1
    /\ run[1].response.jobId = run[1].jobId

\* the last event the request in slot r has published
LastEvent(r) == events[r][Len(events[r])]

\* C34: the completed event of a job that completes carries every field of
\* the response the caller is sent, with the same value (job id, summary,
\* file entries, archive path when there is one), and it has been published
\* when the response is sent.
C34_EventMatchesResponse ==
    run[1].pc = "completed" =>
        /\ run[1].http = 200
        /\ LastEvent(1).kind = "completed"
        /\ LastEvent(1).room = run[1].jobId
        /\ DOMAIN run[1].response \subseteq DOMAIN LastEvent(1).payload
        /\ \A field \in DOMAIN run[1].response \cap DOMAIN LastEvent(1).payload :
              LastEvent(1).payload[field] = run[1].response[field]
        /\ run[1].response.jobId = run[1].jobId
        /\ run[1].sentAfter = Len(events[1])

\* a batch with a failed file and an archive: the event carries the
\* response's summary and archive path
C34_Witness ==
    /\ IsBatch(1) /\ run[1].pc = "completed"
    /\ "archivePath" \in DOMAIN run[1].response
    /\ run[1].response.summary.failedFiles = 1
    /\ LastEvent(1).payload.summary = run[1].response.summary
    /\ LastEvent(1).payload.archivePath = ArchivePath
    /\ run[1].sentAfter = Len(events[1])

\* C35: an emit function called without io, or with a missing or empty job
\* id, publishes nothing, hands nothing to any socket and returns; called
\* with both it publishes one event to the room of the job id.
C35_MissingArgsEmitNothing ==
    /\ []((util.fn \in EmitFunctions /\ util.done) =>
             IF ~util.io \/ util.jobId \in MissingJobIds
             THEN /\ util.emitted = <<>>
                  /\ delivery = NoDelivery
             ELSE /\ Len(util.emitted) = 1
                  /\ util.emitted[1].room = util.jobId)
    /\ [][(EmitCall /\ (~util.io \/ util.jobId \in MissingJobIds))
             => (util'.done /\ UNCHANGED <<delivery, events, rooms, connected>>)]_vars

\* emitCompletion was called with an empty job id while a socket was
\* connected and in a room: the call returned and nothing was handed out
C35_Witness ==
    /\ util.fn = "emitCompletion"
    /\ util.io
    /\ util.jobId = EmptyJobId
    /\ util.done
    /\ util.emitted = <<>>
    /\ 1 \in connected /\ rooms[1] # {}
    /\ delivery = NoDelivery

\* C36: activeConnections holds exactly the sockets that have connected and
\* not disconnected, so getActiveConnectionsCount is their number; each
\* connect adds one key and each disconnect removes one.
C36_ActiveConnectionsExact ==
    /\ [](/\ activeConnections = connected
          /\ getActiveConnectionsCount = Cardinality(connected))
    /\ [][\A o \in Observers :
             /\ Connect(o) => activeConnections' = activeConnections \cup {o}
             /\ Disconnect(o) => activeConnections' = activeConnections \ {o}]_vars

\* socket 2 connected, joined the running job's room and disconnected;
\* socket 1 is connected: the count is 1
C36_Witness ==
    /\ connected = {1}
    /\ left[2] # {}
    /\ activeConnections = {1}
    /\ getActiveConnectionsCount = 1

\* the categories whose extension list holds the lower-cased extension
CategoriesOf(filename) ==
    {c \in DOMAIN SUPPORTED_TYPES : ToLowerCase(filename) \in SUPPORTED_TYPES[c]}

\* C37: getFileTypeCategory returns the one category whose extension list
\* holds the lower-cased extension, or "unknown" when there is none, and
\* isFileTypeSupported holds exactly when the category is not "unknown".
C37_CategoryAndSupport ==
    util.fn = "fileType" =>
        /\ Cardinality(CategoriesOf(util.filename)) <= 1
        /\ util.categorised =>
              IF CategoriesOf(util.filename) = {}
              THEN util.category = "unknown"
              ELSE CategoriesOf(util.filename) = {util.category}
        /\ (util.categorised /\ util.checked) =>
              (util.supported <=> util.category # "unknown")

\* a .JPG file: category images, supported
C37_Witness ==
    /\ util.fn = "fileType"
    /\ util.filename = ".JPG"
    /\ util.categorised /\ util.category = "images"
    /\ util.checked /\ util.supported

=============================================================================
